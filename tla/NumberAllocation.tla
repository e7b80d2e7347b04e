-------------------------- MODULE NumberAllocation --------------------------
(***************************************************************************)
(* What the numbering registry promises, with nothing said of requests,    *)
(* transactions or locks: each series hands out the numbers 1, 2, 3, ...   *)
(* in blocks.  A block goes whole to one holder that had none; a number    *)
(* may be voided, once; no number is handed out twice or taken back.       *)
(***************************************************************************)
EXTENDS Naturals

CONSTANTS
  Series,   \* independent sequences of numbers
  Holder,   \* who may get a block
  Nobody,   \* the holder of a number not handed out; not in Holder
  Limit     \* the last number of a sequence

VARIABLES
  holder,   \* holder[s][n]: who got number n of series s
  voided    \* voided[s]: the numbers of s that were voided

Init ==
  /\ holder = [s \in Series |-> [n \in 1 .. Limit |-> Nobody]]
  /\ voided = [s \in Series |-> {}]

(* h gets the block first..last: all of it free, and just after the        *)
(* numbers handed out before.                                              *)
Issue(s, h, first, last) ==
  /\ \A t \in Series : \A n \in 1 .. Limit : holder[t][n] # h
  /\ \A n \in 1 .. Limit : holder[s][n] = Nobody <=> n >= first
  /\ holder' = [holder EXCEPT ![s] =
       [n \in 1 .. Limit |-> IF n \in first .. last THEN h ELSE holder[s][n]]]
  /\ UNCHANGED voided

Void(s, n) ==
  /\ holder[s][n] # Nobody
  /\ n \notin voided[s]
  /\ voided' = [voided EXCEPT ![s] = voided[s] \cup {n}]
  /\ UNCHANGED holder

Next ==
  \E s \in Series :
    \/ \E h \in Holder, first, last \in 1 .. Limit :
         first <= last /\ Issue(s, h, first, last)
    \/ \E n \in 1 .. Limit : Void(s, n)

Spec == Init /\ [][Next]_<<holder, voided>>
=============================================================================
