------------------------------ MODULE Catalog -------------------------------
(***************************************************************************)
(* The catalog of one org: the registry's get_or_create (registry.rs),     *)
(* Org::new, create_space and from_catalog (state.rs), and the store's     *)
(* rows (store.rs).  Creating an org is five statements and creating a     *)
(* space two, none of them in a transaction; the server may crash between  *)
(* any two, and restarts from the rows there are.                          *)
(***************************************************************************)
EXTENDS Naturals, Sequences, SequencesExt, FiniteSetsExt

CONSTANTS
  LobbyId, DevId,     (* the ids, and names, of the spaces an org starts with *)
  Names,              (* names people ask for                              *)
  MaxSpaces,          (* MAX_SPACES_PER_ORG                                *)
  MaxCatalogCrashes   (* bound: crashes explored                           *)

ASSUME CatalogAssumption ==
  /\ LobbyId # DevId
  /\ MaxSpaces \in Nat /\ MaxSpaces >= 2 /\ MaxCatalogCrashes \in Nat

VARIABLES
  live,       (* is the org in the registry?                               *)
  catalogCrashes,
  catalog,    (* space_order, with each space's name                       *)
  nextSeq,    (* next_space_seq                                            *)
  db          (* the store's rows: the org's, its counter, its spaces      *)

catalogVars == <<live, catalogCrashes, catalog, nextSeq, db>>

Space(id, name) == [id |-> id, name |-> name]

IdsOf(spaces) == {s.id : s \in ToSet(spaces)}

(***************************************************************************)
(* The store.                                                              *)
(***************************************************************************)
NoRows == [org |-> FALSE, seq |-> 1, spaces |-> {}]

UpsertOrg(d) == IF d.org THEN d ELSE [d EXCEPT !.org = TRUE, !.seq = 1]

(* INSERT OR IGNORE: a row with that id stays as it is.                    *)
InsertRow(d, space, ord) ==
  IF \E r \in d.spaces : r.space.id = space.id THEN d
  ELSE [d EXCEPT !.spaces = @ \union {[space |-> space, ord |-> ord]}]

(* insert_space: the row, then the counter.                                *)
InsertSpace(d, space, ord, seq) ==
  LET d1 == InsertRow(d, space, ord)
  IN  <<d1, [d1 EXCEPT !.seq = seq]>>

(* load_all, ORDER BY ord: in place i is the space with i - 1 before it.   *)
LoadSpaces(d) ==
  [i \in 1 .. Cardinality(d.spaces) |->
     (CHOOSE r \in d.spaces : Cardinality({q \in d.spaces : q.ord < r.ord}) = i - 1).space]

(* What the store holds after each statement of Org::new.                  *)
NewOrgWrites(d) ==
  LET d0 == UpsertOrg(d)
      withLobby == InsertSpace(d0, Space(LobbyId, LobbyId), 0, 1)
      withDev == InsertSpace(Last(withLobby), Space(DevId, DevId), 1, 1)
  IN  <<d0>> \o withLobby \o withDev

(* from_catalog puts the lobby back where a crash left none.               *)
RestoreWrites(d) ==
  IF LobbyId \in IdsOf(LoadSpaces(d)) THEN <<d>>
  ELSE InsertSpace(d, Space(LobbyId, LobbyId), 0, d.seq)

(* Mutant of Restored: the rows as they are.                               *)
AsStored(d) == LoadSpaces(d)

Restored(d) ==
  IF LobbyId \in IdsOf(LoadSpaces(d)) THEN LoadSpaces(d)
  ELSE <<Space(LobbyId, LobbyId)>> \o LoadSpaces(d)

(***************************************************************************)
(* The server.                                                             *)
(***************************************************************************)
CatalogInit ==
  /\ live = FALSE /\ catalogCrashes = 0
  /\ catalog = <<>> /\ nextSeq = 1
  /\ db = NoRows

(* A crash leaves the rows as some statement left them.                    *)
CrashAfter(writes) ==
  /\ catalogCrashes < MaxCatalogCrashes
  /\ catalogCrashes' = catalogCrashes + 1
  /\ \E d \in ToSet(<<db>> \o writes) : db' = d
  /\ live' = FALSE /\ catalog' = <<>> /\ nextSeq' = 1

(* get_or_create, of an org the store has never seen.                      *)
NewOrg ==
  /\ ~live /\ ~db.org
  /\ \/ /\ live' = TRUE
        /\ catalog' = <<Space(LobbyId, LobbyId), Space(DevId, DevId)>>
        /\ nextSeq' = 1
        /\ db' = Last(NewOrgWrites(db))
        /\ UNCHANGED catalogCrashes
     \/ CrashAfter(NewOrgWrites(db))

(* Startup with rows of this org.                                          *)
Restore ==
  /\ ~live /\ db.org
  /\ \/ /\ live' = TRUE
        /\ catalog' = Restored(db)
        /\ nextSeq' = db.seq
        /\ db' = Last(RestoreWrites(db))
        /\ UNCHANGED catalogCrashes
     \/ CrashAfter(RestoreWrites(db))

(* Mutant of FreshSeq: trusts the counter.                                 *)
NextSeqOnly == nextSeq

(* The first number from the counter on that no space has.                 *)
FreshSeq == Min({n \in nextSeq .. nextSeq + Len(catalog) : n \notin IdsOf(catalog)})

CatalogFull == Len(catalog) >= MaxSpaces

Taken(name) == \E s \in ToSet(catalog) : s.name = name

CreateSpace(name) ==
  /\ live
  /\ ~CatalogFull /\ ~Taken(name)
  /\ LET space == Space(FreshSeq, name)
         writes == InsertSpace(db, space, Len(catalog), FreshSeq + 1)
     IN  \/ /\ catalog' = Append(catalog, space)
            /\ nextSeq' = FreshSeq + 1
            /\ db' = Last(writes)
            /\ UNCHANGED <<live, catalogCrashes>>
         \/ CrashAfter(writes)

CatalogCrash == live /\ CrashAfter(<<>>)

CatalogNext == NewOrg \/ Restore \/ CatalogCrash \/ \E name \in Names : CreateSpace(name)

CatalogSpec == CatalogInit /\ [][CatalogNext]_catalogVars

(***************************************************************************)
(* Properties.                                                             *)
(***************************************************************************)
(* What a restart would show is what the server shows, space by space and  *)
(* in the same order, however many crashes fell between the statements:    *)
(* no id is issued twice, so INSERT OR IGNORE never ignores a new space.   *)
Restorable == live => catalog = Restored(db)

(* Org::join: "lobby always exists"; no two spaces of an org share a name  *)
(* or an id; and the cap on spaces holds across crashes and restarts.      *)
CatalogSound ==
  /\ Len(catalog) <= MaxSpaces /\ Cardinality(db.spaces) <= MaxSpaces
  /\ live => LobbyId \in IdsOf(catalog)
  /\ \A i, j \in DOMAIN catalog :
       catalog[i].name = catalog[j].name \/ catalog[i].id = catalog[j].id => i = j
=============================================================================
