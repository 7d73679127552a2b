-------------------------------- MODULE Gate --------------------------------
(***************************************************************************)
(* The page's door to the client component (site/app.mjs): serializeSession *)
(* puts every quick call of a session on one promise chain, and            *)
(* enterPatiently repeats a call that found the instance still occupied.   *)
(* A probe is patient but not chained; the raw close-kind is neither.      *)
(* Calls are numbered in the order the page makes them.                    *)
(***************************************************************************)
EXTENDS Integers, Sequences, FiniteSets

CONSTANTS MaxCalls,     \* bound: calls the page makes on one session
          MaxRefusals   \* the fifteen seconds of enterPatiently, in refusals

ASSUME GateAssumption == MaxCalls \in Nat /\ MaxRefusals \in Nat

VARIABLES made,      \* how many calls the page has made
          chain,     \* gated calls whose turn has not come, in order
          serving,   \* the gated call whose turn it is, or NoCall
          refusals,  \* per call: times enterPatiently was turned away
          patient,   \* calls that are in enterPatiently's loop
          inside,    \* the call that is in the instance, or NoCall
          awaiting,  \* probes waiting for the target, out of the instance
          busy,      \* external: the guest's own tasks occupy the instance
          entered,   \* history: the gated calls that got in, in that order
          rejected   \* history: the calls whose caller saw an error

gvars == <<made, chain, serving, refusals, patient, inside, awaiting, busy, entered, rejected>>

NoCall == 0
Calls == 1..MaxCalls
Occupied == busy \/ inside # NoCall

GInit ==
  /\ made = 0 /\ chain = <<>> /\ serving = NoCall
  /\ refusals = [c \in Calls |-> 0]
  /\ patient = {} /\ inside = NoCall /\ awaiting = {} /\ busy = FALSE
  /\ entered = <<>> /\ rejected = {}

\* Mutant of Gated: the call goes to the instance without waiting for its turn.
Ungated ==
  /\ made < MaxCalls
  /\ made' = made + 1
  /\ patient' = patient \cup {made + 1}
  /\ UNCHANGED <<chain, serving, refusals, inside, awaiting, busy, entered, rejected>>

\* One of GATED is called: it takes its place on the chain.
Gated ==
  /\ made < MaxCalls
  /\ made' = made + 1
  /\ chain' = Append(chain, made + 1)
  /\ UNCHANGED <<serving, refusals, patient, inside, awaiting, busy, entered, rejected>>

\* probe: straight to enterPatiently, whatever is on the chain.
Probe ==
  /\ made < MaxCalls
  /\ made' = made + 1
  /\ awaiting' = awaiting \cup {made + 1}
  /\ patient' = patient \cup {made + 1}
  /\ UNCHANGED <<chain, serving, refusals, inside, busy, entered, rejected>>

\* closeKindRaw: neither chained nor patient; an occupied instance is an answer too.
CloseKindRaw ==
  /\ made < MaxCalls
  /\ made' = made + 1
  /\ \/ /\ Occupied
        /\ rejected' = rejected \cup {made + 1}
        /\ UNCHANGED inside
     \/ /\ ~Occupied
        /\ inside' = made + 1
        /\ UNCHANGED rejected
  /\ UNCHANGED <<chain, serving, refusals, patient, awaiting, busy, entered>>

\* chain.then: the call before has settled, one way or the other.
Turn ==
  /\ serving = NoCall /\ chain # <<>>
  /\ serving' = Head(chain)
  /\ chain' = Tail(chain)
  /\ patient' = patient \cup {Head(chain)}
  /\ UNCHANGED <<made, refusals, inside, awaiting, busy, entered, rejected>>

\* A patient call finds the instance free.
Enter(c) ==
  /\ c \in patient /\ ~Occupied
  /\ patient' = patient \ {c}
  /\ inside' = c
  /\ entered' = IF c \in awaiting THEN entered ELSE Append(entered, c)
  /\ UNCHANGED <<made, chain, serving, refusals, awaiting, busy, rejected>>

\* "reentrance forbidden", within the deadline: try again after a while.
Refused(c) ==
  /\ c \in patient /\ Occupied /\ refusals[c] < MaxRefusals
  /\ refusals' = [refusals EXCEPT ![c] = @ + 1]
  /\ UNCHANGED <<made, chain, serving, patient, inside, awaiting, busy, entered, rejected>>

\* Mutant of Settled: a failed call leaves the chain rejected behind it.
SettledJams(c) == serving' = IF serving = c /\ c \notin rejected' THEN NoCall ELSE serving

\* The promise of call c settles; what was queued behind it may start.
Settled(c) == serving' = IF serving = c THEN NoCall ELSE serving

\* The deadline has passed: the refusal is thrown to the caller.
GivenUp(c) ==
  /\ c \in patient /\ Occupied /\ refusals[c] = MaxRefusals
  /\ patient' = patient \ {c}
  /\ awaiting' = awaiting \ {c}
  /\ rejected' = rejected \cup {c}
  /\ Settled(c)
  /\ UNCHANGED <<made, chain, refusals, inside, busy, entered>>

\* The call in the instance is done or fails; the guest may run a short tail.  A
\* probe only leaves the instance: its answer comes later.
Leave ==
  /\ inside # NoCall
  /\ inside' = NoCall
  /\ busy' \in BOOLEAN
  /\ \/ /\ inside \in awaiting
        /\ UNCHANGED <<serving, rejected>>
     \/ /\ inside \notin awaiting
        /\ rejected' \in {rejected, rejected \cup {inside}}
        /\ Settled(inside)
  /\ UNCHANGED <<made, chain, refusals, patient, awaiting, entered>>

\* External: the target finished the probe's command, or the component gave up on it.
ProbeAnswered(c) ==
  /\ c \in awaiting \ patient /\ inside # c
  /\ awaiting' = awaiting \ {c}
  /\ UNCHANGED <<made, chain, serving, refusals, patient, inside, busy, entered, rejected>>

\* External: one of the guest's own tasks enters, and leaves.
GuestEnters ==
  /\ ~Occupied
  /\ busy' = TRUE
  /\ UNCHANGED <<made, chain, serving, refusals, patient, inside, awaiting, entered, rejected>>

GuestLeaves ==
  /\ busy
  /\ busy' = FALSE
  /\ UNCHANGED <<made, chain, serving, refusals, patient, inside, awaiting, entered, rejected>>

GNext ==
  \/ Gated \/ Probe \/ CloseKindRaw \/ Turn \/ Leave \/ GuestEnters \/ GuestLeaves
  \/ \E c \in Calls : Enter(c) \/ Refused(c) \/ GivenUp(c) \/ ProbeAnswered(c)

GSpec == GInit /\ [][GNext]_gvars
-----------------------------------------------------------------------------
\* The gated calls that have not got in: on the chain, or at the instance's door.
ChainTags == {chain[i] : i \in 1..Len(chain)}
AtTheDoor == {c \in patient : c = serving}
Waiting == AtTheDoor \cup ChainTags

\* "ordering is preserved -- keystrokes stay in the order they were typed": whatever
\* is refused, repeated or given up, no call overtakes an earlier one.
InOrder == \A i, j \in 1..Len(entered) : i < j => entered[i] < entered[j]

\* serializeSession keeps what it promises: under this mapping the chain and the
\* patient retries are a line in which the earliest call is admitted, or turned away, next.
TheDoor == INSTANCE Door WITH tickets <- made, line <- Waiting, served <- entered
KeepsTheLine == TheDoor!DSpec

\* "a failed call must not jam the calls behind it": the call the chain waits for is one
\* that is still to get in or to come out, so it will settle.
NoJam == serving # NoCall => serving \in patient \cup {inside}
-----------------------------------------------------------------------------
\* The inductive invariant of the proofs: what has a ticket, and where it can be.
GTypeOK ==
  /\ made \in 0..MaxCalls
  /\ chain \in Seq(Calls) /\ entered \in Seq(Calls)
  /\ serving \in 0..made /\ inside \in 0..made
  /\ patient \subseteq 1..made /\ awaiting \subseteq 1..made

\* Of the gated calls one at most is past the chain, and a call is in one place.
OnePlace ==
  /\ \A c \in patient \ awaiting : c = serving
  /\ serving \notin awaiting /\ inside \notin patient
  /\ \A i \in 1..Len(chain) : chain[i] \notin patient \cup awaiting /\ chain[i] # inside

\* Entered, at the door, on the chain: in the order the calls were made.
Ordered ==
  /\ \A i, j \in 1..Len(chain) : i < j => chain[i] < chain[j]
  /\ \A i \in 1..Len(entered) : entered[i] <= made
  /\ \A i \in 1..Len(entered), j \in 1..Len(chain) : entered[i] < chain[j]
  /\ \A i \in 1..Len(chain) : serving < chain[i] /\ chain[i] <= made
  /\ serving \in patient => \A i \in 1..Len(entered) : entered[i] < serving

GInd == GTypeOK /\ OnePlace /\ Ordered /\ InOrder /\ NoJam
=============================================================================
