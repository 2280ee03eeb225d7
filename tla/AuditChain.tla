----------------------------- MODULE AuditChain -----------------------------
(***************************************************************************)
(* The hash-chained audit log: write_audit (services/audit.py),            *)
(* last_audit_hash (books_repo.py) and verify_audit_chain                  *)
(* (services/dataroom.py).                                                 *)
(*                                                                         *)
(* A transaction writes one audit row per consequential change.  Its query *)
(* for the newest row sees committed rows and the transaction's own; the   *)
(* new row gets its created_at when it is flushed and becomes visible to   *)
(* others at COMMIT.  Nothing serialises two transactions between the      *)
(* query and the COMMIT.  The tenant is fixed: chains of two tenants share *)
(* nothing.                                                                *)
(***************************************************************************)
EXTENDS Integers, FiniteSets

CONSTANTS
  Writers,    \* transactions that write audit rows
  MaxEntries, \* bound: audit rows of one transaction
  MaxEdits    \* bound: rows edited behind the log's back

ASSUME Bounds == MaxEntries \in Nat \ {0} /\ MaxEdits \in Nat

VARIABLES
  rows,       \* committed audit_log rows: [created, prev, body, hash]
  pc,         \* "idle", "open", "pending" (prev_hash chosen), "done", "failed"
  own,        \* rows flushed by each open transaction
  prev,       \* prev_hash of the row each transaction is about to flush
  clock,      \* the time of the next flush
  edited,     \* created_at of the rows edited outside the program
  overlapped  \* history: two transactions have been open at once

vars == <<rows, pc, own, prev, clock, edited, overlapped>>

Genesis == <<>>

\* sha256(prev|body): collision-free, so a hash is what was hashed.
Hash(p, body) == <<p, body>>

Init ==
  /\ rows = {}
  /\ pc = [w \in Writers |-> "idle"]
  /\ own = [w \in Writers |-> {}]
  /\ prev = [w \in Writers |-> Genesis]
  /\ clock = 1
  /\ edited = {}
  /\ overlapped = FALSE

Open(w) == pc[w] \in {"open", "pending"}

\* The last row by created_at, and its hash; created_at is unique in the model.
Newest(S) == CHOOSE r \in S : \A q \in S : q.created <= r.created
HashOfNewest(S) == IF S = {} THEN Genesis ELSE Newest(S).hash

\* Mutant for SerialChainVerifies: the query misses the transaction's own rows.
LastHashCommitted(w) == HashOfNewest(rows)
\* last_audit_hash, as w's transaction sees it.
LastHash(w) == HashOfNewest(rows \cup own[w])

\* created_at of the next row to be flushed.
NextTime == clock + 1

\* A request opens its transaction.
Begin(w) ==
  /\ pc[w] = "idle"
  /\ pc' = [pc EXCEPT ![w] = "open"]
  /\ overlapped' = (overlapped \/ \E v \in Writers : Open(v))
  /\ UNCHANGED <<rows, own, prev, clock, edited>>

\* write_audit queries the newest row and builds the new one on it.
WriteAudit(w) ==
  /\ pc[w] = "open"
  /\ Cardinality(own[w]) < MaxEntries
  /\ prev' = [prev EXCEPT ![w] = LastHash(w)]
  /\ pc' = [pc EXCEPT ![w] = "pending"]
  /\ UNCHANGED <<rows, own, clock, edited, overlapped>>

\* The row is flushed, by the next query or by COMMIT, and takes its created_at.
Flush(w) ==
  LET body == <<w, Cardinality(own[w]) + 1>> IN
  /\ pc[w] = "pending"
  /\ own' = [own EXCEPT ![w] = @ \cup
       {[created |-> clock, prev |-> prev[w], body |-> body, hash |-> Hash(prev[w], body)]}]
  /\ clock' = NextTime
  /\ pc' = [pc EXCEPT ![w] = "open"]
  /\ UNCHANGED <<rows, prev, edited, overlapped>>

\* COMMIT: the transaction's rows appear together.
Commit(w) ==
  /\ pc[w] = "open"
  /\ own[w] # {}
  /\ rows' = rows \cup own[w]
  /\ own' = [own EXCEPT ![w] = {}]
  /\ pc' = [pc EXCEPT ![w] = "done"]
  /\ UNCHANGED <<prev, clock, edited, overlapped>>

\* The request fails: its audit rows are rolled back with its changes.
Rollback(w) ==
  /\ Open(w)
  /\ own' = [own EXCEPT ![w] = {}]
  /\ pc' = [pc EXCEPT ![w] = "failed"]
  /\ UNCHANGED <<rows, prev, clock, edited, overlapped>>

\* Somebody edits the contents of a committed row, as the tampering test of
\* tests/integration/test_guardrails_and_tenancy.py does.
Edit ==
  /\ Cardinality(edited) < MaxEdits
  /\ \E r \in rows :
       /\ r.created \notin edited
       /\ rows' = (rows \ {r}) \cup {[r EXCEPT !.body = <<"edited">>]}
       /\ edited' = edited \cup {r.created}
  /\ UNCHANGED <<pc, own, prev, clock, overlapped>>

Quiet == (\A w \in Writers : ~Open(w)) /\ UNCHANGED vars

Next ==
  \/ \E w \in Writers : Begin(w) \/ WriteAudit(w) \/ Flush(w) \/ Commit(w) \/ Rollback(w)
  \/ Edit
  \/ Quiet

Spec == Init /\ [][Next]_vars

-----------------------------------------------------------------------------
(* verify_audit_chain.                                                      *)

\* The rows the walk has passed when it comes to r.
Before(r) == {q \in rows : q.created < r.created}

\* Mutant for ChainSound: only the links are compared.
LinkHoldsByPrev(r) == r.prev = HashOfNewest(Before(r))
\* Row r follows the row before it and its hash is the hash of its contents.
LinkHolds(r) ==
  LET p == HashOfNewest(Before(r)) IN r.prev = p /\ r.hash = Hash(p, r.body)

Breaks == {r \in rows : ~LinkHolds(r)}
Verifies == Breaks = {}

\* first_break_id.
FirstBreak == CHOOSE r \in Breaks : \A q \in Breaks : r.created <= q.created

-----------------------------------------------------------------------------
(* Properties.                                                              *)

\* Rows that were flushed and not rolled back.
Flushed == rows \cup UNION {own[w] : w \in Writers}

Row(r) == r = [created |-> r.created, prev |-> r.prev, body |-> r.body, hash |-> r.hash]

\* Type invariant of the module's state; created_at is unique per row.
TypeOK ==
  /\ clock \in Nat
  /\ \A r \in Flushed : Row(r) /\ r.created \in Nat /\ r.created < clock
  /\ \A r, q \in Flushed : r.created = q.created => r = q
  /\ pc \in [Writers -> {"idle", "open", "pending", "done", "failed"}]
  /\ DOMAIN own = Writers /\ DOMAIN prev = Writers
  /\ \A w \in Writers : own[w] # {} => Open(w)
  /\ edited \subseteq {r.created : r \in rows}
  /\ overlapped \in BOOLEAN

\* "A verified chain means no figure was edited after the fact"
\* (dataroom.py): no edit goes unnoticed, whatever transactions overlap.
EditsAreFound == edited # {} => ~Verifies

\* A row in flight is in one transaction only.
OwnApart ==
  \A w \in Writers :
    /\ own[w] \cap rows = {}
    /\ \A v \in Writers \ {w} : own[v] \cap own[w] = {}

\* The hash of every row is that of its first contents; an edited row has others.
RowsHashed ==
  \A r \in Flushed :
    LET first == r.hash[2] IN
    /\ r.hash = Hash(r.prev, first) /\ first # <<"edited">>
    /\ r.body = IF r.created \in edited THEN <<"edited">> ELSE first

\* Every row of S was built on the row of S before it.
Earlier(r, S) == {q \in S : q.created < r.created}
Linked(S) == \A r \in S : r.prev = HashOfNewest(Earlier(r, S))

\* Transactions that do not overlap build one chain, committed or not.
SerialLinks ==
  ~overlapped =>
    /\ \A v, w \in Writers : Open(v) /\ Open(w) => v = w
    /\ Linked(rows)
    /\ \A w \in Writers : Open(w) =>
         /\ Linked(rows \cup own[w])
         /\ \A r \in rows, q \in own[w] : r.created < q.created
    /\ \A w \in Writers : pc[w] = "pending" => prev[w] = LastHash(w)

\* The chain is well formed and tells every edit: the inductive invariant of
\* the module, and what follows from it.
ChainSound == TypeOK /\ OwnApart /\ RowsHashed /\ SerialLinks /\ EditsAreFound

\* As long as no two transactions overlap, the chain verifies, whatever rolls
\* back and however many rows a transaction writes, until a row is edited; and
\* then the break reported is at the earliest edited row.
SerialChainVerifies ==
  ~overlapped =>
    IF edited = {} THEN Verifies
    ELSE /\ FirstBreak.created \in edited
         /\ \A t \in edited : FirstBreak.created <= t

\* "A broken link means tampering" (audit.py): fails once two transactions
\* build on the same newest row.
BrokenMeansEdited == edited = {} => Verifies
=============================================================================
