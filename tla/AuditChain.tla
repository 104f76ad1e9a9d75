------------------------------ MODULE AuditChain ------------------------------
(***************************************************************************)
(* audit.mjs, http/audit-routes.mjs and the trigger fn_audit_chain_link:   *)
(* the hash chain over the audit_events of one facility.                   *)
(*                                                                         *)
(* A row takes its chain_seq from a sequence; the trigger then links it to *)
(* the row with the greatest smaller chain_seq it can see, among those of  *)
(* committed transactions and its own.  The hash of a row covers its       *)
(* contents, written out as a text, and the hash before it: it is modelled *)
(* as the sequence of all texts so far, so that hashes are equal when the  *)
(* texts are.  The trigger writes the contents out in SQL, the verifier in *)
(* JavaScript, from the JSON it is sent.  The two agree on most contents:  *)
(* not on the number 1e-7, on 1.0, or on keys that look like integers, and *)
(* two contents of different SQL texts (1 and 1.0) may have one in         *)
(* JavaScript.                                                             *)
(***************************************************************************)
EXTENDS Naturals, Sequences, FiniteSets

CONSTANTS
  Writers,     \* transactions that write audit rows
  Payloads,    \* contents of a row
  Texts,       \* what is made of them
  SqlText,     \* event_payload::text and the other columns, as the trigger has them
  JsText,      \* the same, by jsonbText and String
  MaxAuditRows, \* bound: values the sequence hands out
  VerifyLimit  \* VERIFY_LIMIT, the rows a verification reads

ASSUME AuditChainAssumption ==
  /\ MaxAuditRows \in Nat /\ VerifyLimit \in Nat \ {0}
  /\ SqlText \in [Payloads -> Texts] /\ JsText \in [Payloads -> Texts]

VARIABLES
  rows,      \* audit_events: chain_seq, writer, contents, prev_hash, row_hash
  writer,    \* "open", "committed" or "aborted"
  drawn,     \* the chain_seq a writer drew for a row not yet linked, or 0
  chainSeq,  \* the last value of audit_events_chain_seq
  tampered,  \* history: chain_seq of rows changed in place or erased
  crossed    \* history: a writer drew a number while another was writing

auditChainVars == <<rows, writer, drawn, chainSeq, tampered, crossed>>

AuditChainInit ==
  /\ rows = {}
  /\ writer = [w \in Writers |-> "open"]
  /\ drawn  = [w \in Writers |-> 0]
  /\ chainSeq = 0 /\ tampered = {} /\ crossed = FALSE

-----------------------------------------------------------------------------
\* Whether a writer has rows, or a number for one, that no other can see.
Writing(w) ==
  writer[w] = "open" /\ (drawn[w] # 0 \/ \E row \in rows : row.by = w)

\* The column default nextval(...) is evaluated before the trigger runs.
Draw(w) ==
  /\ writer[w] = "open" /\ drawn[w] = 0
  /\ chainSeq < MaxAuditRows
  /\ chainSeq' = chainSeq + 1
  /\ drawn' = [drawn EXCEPT ![w] = chainSeq + 1]
  /\ crossed' = (crossed \/ \E other \in Writers \ {w} : Writing(other))
  /\ UNCHANGED <<rows, writer, tampered>>

\* A variant that passes over the writer's own uncommitted rows.
VisibleCommitted(w) == {row \in rows : writer[row.by] = "committed"}

Visible(w) == {row \in rows : row.by = w \/ writer[row.by] = "committed"}

Before(w) == {row \in Visible(w) : row.seq < drawn[w]}

\* The hash of the row with the greatest chain_seq, null when there is none.
LastHash(linked) ==
  IF linked = {} THEN <<>>
  ELSE (CHOOSE row \in linked : \A r \in linked : r.seq <= row.seq).hash

PrevHash(w) == LastHash(Before(w))

\* fn_audit_chain_link: prev_hash || canonical.
RowHash(prev, x) == Append(prev, SqlText[x])

Link(w, x) ==
  /\ drawn[w] # 0
  /\ rows' = rows \cup {[seq |-> drawn[w], by |-> w, contents |-> x,
                         prev |-> PrevHash(w), hash |-> RowHash(PrevHash(w), x)]}
  /\ drawn' = [drawn EXCEPT ![w] = 0]
  /\ UNCHANGED <<writer, chainSeq, tampered, crossed>>

Commit(w) ==
  /\ writer[w] = "open" /\ drawn[w] = 0
  /\ writer' = [writer EXCEPT ![w] = "committed"]
  /\ UNCHANGED <<rows, drawn, chainSeq, tampered, crossed>>

\* A number that was drawn is gone.
Abort(w) ==
  /\ writer[w] = "open"
  /\ writer' = [writer EXCEPT ![w] = "aborted"]
  /\ rows' = {row \in rows : row.by # w}
  /\ drawn' = [drawn EXCEPT ![w] = 0]
  /\ UNCHANGED <<chainSeq, tampered, crossed>>

\* What the chain is there to show: contents changed in a stored row.
Tamper(row, x) ==
  /\ writer[row.by] = "committed" /\ x # row.contents
  /\ rows' = (rows \ {row}) \cup {[row EXCEPT !.contents = x]}
  /\ tampered' = tampered \cup {row.seq}
  /\ UNCHANGED <<writer, drawn, chainSeq, crossed>>

Erase(row) ==
  /\ writer[row.by] = "committed"
  /\ rows' = rows \ {row}
  /\ tampered' = tampered \cup {row.seq}
  /\ UNCHANGED <<writer, drawn, chainSeq, crossed>>

AuditChainNext ==
  \/ \E w \in Writers :
       \/ Draw(w) \/ Commit(w) \/ Abort(w)
       \/ \E x \in Payloads : Link(w, x)
  \/ \E row \in rows : Erase(row) \/ \E x \in Payloads : Tamper(row, x)

AuditChainSpec == AuditChainInit /\ [][AuditChainNext]_auditChainVars

-----------------------------------------------------------------------------
\* GET /facilities/:facilityId/audit/verify reads the committed rows in the
\* order of chain_seq, the oldest VERIFY_LIMIT of them.
Stored == {row \in rows : writer[row.by] = "committed"}

Fetched ==
  {row \in Stored :
     Cardinality({r \in Stored : r.seq <= row.seq}) <= VerifyLimit}

Predecessors(row) == {r \in Fetched : r.seq < row.seq}

JsonbText(row) == JsText[row.contents]

ComputeDbRowHash(row) == Append(row.prev, JsonbText(row))

\* verifyDbChain: each prev_hash is the row_hash of the row before, null for
\* the first, and each row_hash is the one computed from the row.
VerifyDbChain ==
  \A row \in Fetched :
    /\ row.prev = LastHash(Predecessors(row))
    /\ row.hash = ComputeDbRowHash(row)

-----------------------------------------------------------------------------
AuditChainTypeOK ==
  /\ rows \subseteq [seq : 1 .. MaxAuditRows, by : Writers, contents : Payloads,
                     prev : Seq(Texts), hash : Seq(Texts)]
  /\ writer \in [Writers -> {"open", "committed", "aborted"}]
  /\ drawn \in [Writers -> 0 .. MaxAuditRows]
  /\ chainSeq \in 0 .. MaxAuditRows
  /\ tampered \subseteq 1 .. MaxAuditRows
  /\ crossed \in BOOLEAN

\* The contents of the rows it fetches up to one, in their order, as it writes
\* them.
UpTo(row) == {r \in Fetched : r.seq <= row.seq}
RowAt(i)  == CHOOSE row \in Fetched : Cardinality(UpTo(row)) = i

History(row) == [i \in 1 .. Cardinality(UpTo(row)) |-> JsonbText(RowAt(i))]

\* Verification accepts the rows it fetches exactly when the hash of each, made
\* by the trigger, is that of all contents up to it as JavaScript writes them,
\* whatever was changed, erased or linked across transactions.  As long as the
\* writers of one facility do not overlap, a chain nobody touched is accepted
\* exactly when no row read holds contents the two write differently.
VerdictIsRight ==
  /\ VerifyDbChain <=> \A row \in Fetched : row.hash = History(row)
  /\ ~crossed /\ tampered = {} =>
       (VerifyDbChain <=>
          \A row \in Fetched : SqlText[row.contents] = JsonbText(row))
=============================================================================
