---------------------------- MODULE OnceAnswered ----------------------------
(***************************************************************************)
(* What the ThingsBoard client promises who makes a request: its callback  *)
(* is called once, or the request or its answer is lost and it is never    *)
(* called.  Requests are numbered from 1.                                  *)
(***************************************************************************)
EXTENDS Naturals

VARIABLES
  made,    \* requests made so far
  called,  \* requests whose callback was called
  lost     \* requests whose callback never will be

onceVars == <<made, called, lost>>

OnceInit == made = 0 /\ called = {} /\ lost = {}

\* A request is made, and may be lost at once.
Make == /\ made' = made + 1
        /\ lost' \in {lost, lost \union {made + 1}}
        /\ UNCHANGED called

\* Answers may come in any order.
Call == \E id \in (1..made) \ (called \union lost) :
          /\ called' = called \union {id}
          /\ UNCHANGED <<made, lost>>

LoseSome == \E ids \in SUBSET ((1..made) \ called) :
              /\ lost' = lost \union ids
              /\ UNCHANGED <<made, called>>

OnceNext == Make \/ Call \/ LoseSome

OnceSpec == OnceInit /\ [][OnceNext]_onceVars
=============================================================================
