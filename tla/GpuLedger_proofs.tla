--------------------------- MODULE GpuLedger_proofs ---------------------------
(***************************************************************************)
(* The accounting view of a lease keeps its promise for any set of tokens  *)
(* (0 stands for no token).                                                *)
(***************************************************************************)
EXTENDS GpuLedger, TLAPS

(* OneLease is inductive together with the types: Grant demands that nothing *)
(* is outstanding, Record and Settle leave the user's token outstanding, and *)
(* the loss of the machine takes the user and the pledge together.           *)
LEMMA LedgerInductive ==
    ASSUME 0 \notin Tokens PROVE Spec => [](TypeOK /\ OneLease)
<1>1. Init => TypeOK /\ OneLease
  BY DEF Init, TypeOK, OneLease, Outstanding
<1>2. TypeOK /\ OneLease /\ [Next]_vars => TypeOK' /\ OneLease'
  <2> SUFFICES ASSUME TypeOK, OneLease, [Next]_vars PROVE TypeOK' /\ OneLease'
    OBVIOUS
  <2> USE DEF TypeOK, OneLease, Outstanding
  <2>1. CASE \E t \in Tokens : Register(t)  BY <2>1 DEF Register
  <2>2. CASE \E t \in Tokens : Grant(t)     BY <2>2 DEF Grant
  <2>3. CASE \E t \in Tokens : Enter(t)     BY <2>3 DEF Enter
  <2>4. CASE Leave                          BY <2>4 DEF Leave
  <2>5. CASE \E t \in Tokens : Settle(t)    BY <2>5 DEF Settle
  <2>6. CASE Record                         BY <2>6 DEF Record
  <2>7. CASE PowerLoss                      BY <2>7 DEF PowerLoss
  <2>8. CASE UNCHANGED vars                 BY <2>8 DEF vars
  <2> QED BY <2>1, <2>2, <2>3, <2>4, <2>5, <2>6, <2>7, <2>8 DEF Next
<1> QED BY <1>1, <1>2, PTL DEF Spec

(* At every moment at most one lease is outstanding, in the journal or about *)
(* to be, and the arena measures only under that lease: what the measurement *)
(* ledger relies on when it turns ready and release events into GPU time.    *)
THEOREM LedgerOneLease ==
    ASSUME 0 \notin Tokens PROVE Spec => []OneLease
BY LedgerInductive, PTL
=============================================================================
