-------------------------- MODULE TreeWriterLedger --------------------------
(* The write path implements TreeLedger. *)
EXTENDS TreeWriter

Ledger == INSTANCE TreeLedger
          WITH ledger <- trees, shown <- store.projected + 1, table <- Shown

(* Each step of the writers, the server and the faults is a step of the    *)
(* ledger or leaves it alone: the stream records accepted mutations only,  *)
(* apart from the unchecked events and their rejections, and the table     *)
(* moves to its newest tree and never back.                                *)
KeepsTheLedger == Ledger!LedgerSpec

=============================================================================
