\* A session that ends while a video is shown.
SPECIFICATION PanelSpec
CONSTANTS
  Peers = {p1, p2}
  Local = Local
  Nobody = Nobody
INVARIANTS
  HiddenWhenNothingLive
