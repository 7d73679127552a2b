----------------------------- MODULE Gate_proofs -----------------------------
(***************************************************************************)
(* The door to the client component, for any number of calls and any       *)
(* patience: no gated call overtakes an earlier one, and the chain with    *)
(* its retries implements the plain line of Door.                          *)
(***************************************************************************)
EXTENDS Gate, TLAPS

LEMMA InitGInd == GInit => GInd
  BY GateAssumption DEF GInit, GInd, GTypeOK, OnePlace, Ordered, InOrder, NoJam, NoCall

\* What GTypeOK says of every number in the state.
LEMMA Numbers ==
  ASSUME GTypeOK
  PROVE  /\ made \in Nat /\ serving \in Nat /\ inside \in Nat
         /\ serving <= made /\ inside <= made
         /\ Len(chain) \in Nat /\ \A i \in 1..Len(chain) : chain[i] \in Nat \ {0}
         /\ Len(entered) \in Nat /\ \A i \in 1..Len(entered) : entered[i] \in Nat \ {0}
         /\ \A c \in patient \cup awaiting : c \in Nat \ {0} /\ c <= made
<1>1. made \in Nat /\ serving \in Nat /\ inside \in Nat /\ serving <= made /\ inside <= made
  BY GateAssumption DEF GTypeOK
<1>2. /\ Len(chain) \in Nat /\ \A i \in 1..Len(chain) : chain[i] \in Calls
      /\ Len(entered) \in Nat /\ \A i \in 1..Len(entered) : entered[i] \in Calls
  BY DEF GTypeOK
<1>3. Calls \subseteq Nat \ {0}
  BY GateAssumption DEF Calls
<1>4. \A c \in patient \cup awaiting : c \in Nat \ {0} /\ c <= made
  BY <1>1 DEF GTypeOK
<1> QED BY <1>1, <1>2, <1>3, <1>4

\* A step that leaves the order book alone: what may change is who is at the door.
LEMMA SameBook ==
  ASSUME GInd, UNCHANGED <<chain, entered>>,
         made' \in made..MaxCalls,
         serving' = serving \/ (serving' = NoCall /\ (serving # NoCall => serving \notin patient')),
         patient' \subseteq 1..made', awaiting' \subseteq 1..made', inside' \in 0..made',
         patient' \ awaiting' \subseteq patient \ awaiting,
         patient' \ patient \subseteq made + 1..made',
         awaiting' \ awaiting \subseteq made + 1..made',
         inside' \in {inside, NoCall} \cup (made + 1..made'),
         inside' \notin patient', NoJam'
  PROVE  GInd'
<1>0. GTypeOK /\ OnePlace /\ Ordered /\ InOrder
  BY DEF GInd
<1>n. /\ made \in Nat /\ serving \in Nat /\ inside \in Nat
      /\ serving <= made /\ inside <= made
      /\ Len(chain) \in Nat /\ \A i \in 1..Len(chain) : chain[i] \in Nat \ {0}
      /\ Len(entered) \in Nat /\ \A i \in 1..Len(entered) : entered[i] \in Nat \ {0}
      /\ \A c \in patient \cup awaiting : c \in Nat \ {0} /\ c <= made
  BY <1>0, Numbers
<1>m. made' \in Nat /\ made <= made' /\ made' <= MaxCalls /\ serving' \in Nat /\ serving' <= serving
  BY <1>n, GateAssumption DEF NoCall
<1>1. GTypeOK'
  <2>1. serving' \in 0..made' /\ made' \in 0..MaxCalls
    BY <1>n, <1>m
  <2> QED BY <2>1, <1>0 DEF GTypeOK
<1>2. OnePlace'
  <2>1. \A c \in patient' \ awaiting' : c = serving'
    BY <1>0, <1>n DEF OnePlace, NoCall
  <2>2. serving' \notin awaiting'
    BY <1>0, <1>n, <1>m DEF OnePlace, NoCall
  <2>3. ASSUME NEW i \in 1..Len(chain)
        PROVE chain[i] \notin patient' \cup awaiting' /\ chain[i] # inside'
    <3>1. chain[i] \in Nat \ {0} /\ chain[i] <= made
      BY <1>0, <1>n DEF Ordered
    <3>2. chain[i] \notin patient \cup awaiting /\ chain[i] # inside
      BY <1>0 DEF OnePlace
    <3> QED BY <3>1, <3>2, <1>n, <1>m DEF NoCall
  <2> QED BY <2>1, <2>2, <2>3 DEF OnePlace
<1>3. Ordered'
  <2>1. \A i \in 1..Len(chain) : serving' < chain[i] /\ chain[i] <= made'
    BY <1>0, <1>n, <1>m DEF Ordered
  <2>2. serving' \in patient' => serving' = serving /\ serving \in patient
    BY <1>n, <1>m DEF NoCall
  <2>3. \A i \in 1..Len(entered) : entered[i] <= made'
    BY <1>0, <1>n, <1>m DEF Ordered
  <2> QED BY <2>1, <2>2, <2>3, <1>0 DEF Ordered
<1>4. InOrder'
  BY <1>0 DEF InOrder
<1> QED BY <1>1, <1>2, <1>3, <1>4 DEF GInd

LEMMA NextGInd == GInd /\ [GNext]_gvars => GInd'
<1> SUFFICES ASSUME GInd, [GNext]_gvars PROVE GInd'
  OBVIOUS
<1>t. GTypeOK /\ OnePlace /\ Ordered /\ InOrder /\ NoJam
  BY DEF GInd
<1>n. /\ made \in Nat /\ serving \in Nat /\ inside \in Nat
      /\ serving <= made /\ inside <= made
      /\ Len(chain) \in Nat /\ \A i \in 1..Len(chain) : chain[i] \in Nat \ {0}
      /\ Len(entered) \in Nat /\ \A i \in 1..Len(entered) : entered[i] \in Nat \ {0}
      /\ \A c \in patient \cup awaiting : c \in Nat \ {0} /\ c <= made
  BY <1>t, Numbers
<1>1. CASE Gated
  <2>1. /\ made' = made + 1 /\ made + 1 \in Calls /\ chain' = Append(chain, made + 1)
        /\ UNCHANGED <<serving, patient, inside, awaiting, entered>>
    BY <1>1, <1>t, GateAssumption DEF Gated, GTypeOK, Calls
  <2>2. /\ chain' \in Seq(Calls) /\ Len(chain') = Len(chain) + 1
        /\ \A i \in 1..Len(chain') :
             chain'[i] = IF i = Len(chain) + 1 THEN made + 1 ELSE chain[i]
    BY <2>1, <1>t DEF GTypeOK
  <2>3. GTypeOK'
    BY <2>1, <2>2, <1>t, GateAssumption DEF GTypeOK, Calls
  <2>4. OnePlace'
    BY <2>1, <2>2, <1>t DEF GTypeOK, OnePlace
  <2>5. Ordered'
    BY <2>1, <2>2, <1>t, <1>n DEF Ordered
  <2>6. InOrder'
    BY <2>1, <1>t DEF InOrder
  <2>7. NoJam'
    BY <2>1, <1>t DEF NoJam
  <2> QED BY <2>3, <2>4, <2>5, <2>6, <2>7 DEF GInd
<1>2. CASE Turn
  <2>1. /\ chain # <<>> /\ serving = NoCall /\ serving' = Head(chain) /\ chain' = Tail(chain)
        /\ patient' = patient \cup {Head(chain)}
        /\ UNCHANGED <<made, inside, awaiting, entered>>
    BY <1>2 DEF Turn
  <2>2. /\ Len(chain) \in Nat \ {0} /\ Head(chain) = chain[1] /\ chain[1] \in 1..made
        /\ chain' \in Seq(Calls) /\ Len(chain') = Len(chain) - 1
        /\ \A i \in 1..Len(chain') : i + 1 \in 1..Len(chain) /\ chain'[i] = chain[i + 1]
    <3>1. Len(chain) \in Nat \ {0} /\ chain[1] \in Calls
      BY <2>1, <1>t DEF GTypeOK
    <3>2. chain[1] <= made
      BY <3>1, <1>t DEF Ordered
    <3>3. chain[1] \in 1..made
      BY <3>1, <3>2, <1>t, GateAssumption DEF GTypeOK, Calls
    <3>4. /\ Head(chain) = chain[1] /\ chain' \in Seq(Calls) /\ Len(chain') = Len(chain) - 1
          /\ \A i \in 1..Len(chain') : i + 1 \in 1..Len(chain) /\ chain'[i] = chain[i + 1]
      BY <2>1, <3>1, <1>t DEF GTypeOK
    <3> QED BY <3>1, <3>3, <3>4
  <2>3. GTypeOK'
    <3>1. serving' = chain[1] /\ patient' = patient \cup {chain[1]}
      BY <2>1, <2>2
    <3>2. chain[1] \in 1..made /\ made \in Nat /\ patient \subseteq 1..made
      BY <2>2, <1>t, <1>n DEF GTypeOK
    <3>3. serving' \in 0..made
      BY <3>1, <3>2
    <3>4. patient' \subseteq 1..made
      BY <3>1, <3>2
    <3> QED BY <2>1, <2>2, <3>3, <3>4, <1>t DEF GTypeOK
  <2>4. OnePlace'
    <3>1. \A c \in patient \ awaiting : FALSE
      BY <2>1, <1>t DEF GTypeOK, OnePlace, NoCall
    <3>2. \A c \in patient' \ awaiting' : c = serving'
      BY <3>1, <2>1
    <3>3. serving' \notin awaiting' /\ inside' \notin patient'
      BY <2>1, <2>2, <1>t DEF OnePlace
    <3>4. ASSUME NEW i \in 1..Len(chain')
          PROVE chain'[i] \notin patient' \cup awaiting' /\ chain'[i] # inside'
      <4>1. i + 1 \in 1..Len(chain) /\ chain'[i] = chain[i + 1] /\ chain[1] < chain[i + 1]
        BY <2>2, <1>t DEF Ordered
      <4>2. chain[i + 1] \in Calls /\ chain[1] \in 1..made
        BY <4>1, <2>2, <1>t DEF GTypeOK
      <4>3. chain[i + 1] \in Int /\ chain[1] \in Int
        BY <4>2, <1>t, GateAssumption DEF GTypeOK, Calls
      <4> QED BY <4>1, <4>3, <2>1, <2>2, <1>t DEF OnePlace
    <3> QED BY <3>2, <3>3, <3>4 DEF OnePlace
  <2>5. Ordered'
    <3>1. \A i, j \in 1..Len(chain') : i < j => chain'[i] < chain'[j]
      BY <2>2, <1>t DEF Ordered
    <3>2. \A i \in 1..Len(entered'), j \in 1..Len(chain') : entered'[i] < chain'[j]
      BY <2>1, <2>2, <1>t DEF Ordered
    <3>3. \A i \in 1..Len(chain') : serving' < chain'[i] /\ chain'[i] <= made'
      BY <2>1, <2>2, <1>t DEF Ordered
    <3>4. \A i \in 1..Len(entered') : entered'[i] < serving' /\ entered'[i] <= made'
      BY <2>1, <2>2, <1>t DEF Ordered
    <3> QED BY <3>1, <3>2, <3>3, <3>4 DEF Ordered
  <2>6. InOrder'
    BY <2>1, <1>t DEF InOrder
  <2>7. NoJam'
    BY <2>1, <1>t DEF NoJam
  <2> QED BY <2>3, <2>4, <2>5, <2>6, <2>7 DEF GInd
<1>3. ASSUME NEW c \in Calls, Enter(c) PROVE GInd'
  <2>1. /\ c \in patient /\ patient' = patient \ {c} /\ inside = NoCall /\ inside' = c
        /\ UNCHANGED <<made, chain, serving, awaiting>>
    BY <1>3 DEF Enter, Occupied
  <2>0. NoJam'
    BY <2>1, <1>t DEF NoJam
  <2>2. CASE c \in awaiting
    <3>1. UNCHANGED entered
      BY <1>3, <2>2 DEF Enter
    <3> QED BY <2>0, <2>1, <3>1, <1>t, GateAssumption DEF GInd, GTypeOK, OnePlace, Ordered, InOrder
  <2>3. CASE c \notin awaiting
    <3>1. c = serving /\ entered' = Append(entered, c) /\ c \in 1..made
      BY <1>3, <2>1, <2>3, <1>t DEF Enter, OnePlace, GTypeOK
    <3>2. /\ entered' \in Seq(Calls) /\ Len(entered') = Len(entered) + 1
          /\ \A i \in 1..Len(entered') :
               entered'[i] = IF i = Len(entered) + 1 THEN c ELSE entered[i]
      BY <3>1, <1>t DEF GTypeOK
    <3>3. GTypeOK'
      BY <2>1, <3>1, <3>2, <1>t DEF GTypeOK
    <3>4. OnePlace'
      BY <2>1, <3>1, <1>t DEF GTypeOK, OnePlace
    <3>5. Ordered'
      BY <2>1, <3>1, <3>2, <1>t DEF GTypeOK, Ordered
    <3>6. InOrder'
      <4>1. \A i \in 1..Len(entered) : entered[i] < c
        BY <2>1, <3>1, <1>t DEF Ordered
      <4>2. ASSUME NEW i \in 1..Len(entered'), NEW j \in 1..Len(entered'), i < j
            PROVE  entered'[i] < entered'[j]
        <5>1. i \in 1..Len(entered)
          BY <3>2, <4>2, <1>n
        <5>2. CASE j \in 1..Len(entered)
          <6>1. entered'[i] = entered[i] /\ entered'[j] = entered[j]
            BY <3>2, <4>2, <5>1, <5>2, <1>n
          <6>2. entered[i] < entered[j]
            BY <4>2, <5>1, <5>2, <1>t DEF InOrder
          <6> QED BY <6>1, <6>2
        <5>3. CASE j = Len(entered) + 1
          BY <3>2, <4>1, <5>1, <5>3, <1>n
        <5> QED BY <3>2, <5>2, <5>3, <1>n
      <4> QED BY <4>2 DEF InOrder
    <3> QED BY <2>0, <3>3, <3>4, <3>5, <3>6 DEF GInd
  <2> QED BY <2>2, <2>3
<1>4. CASE Probe
  <2>1. NoJam'
    BY <1>4, <1>t DEF Probe, NoJam
  <2> QED BY <1>4, <1>t, <2>1, SameBook, GateAssumption DEF Probe, GTypeOK, OnePlace, NoCall
<1>5. CASE CloseKindRaw
  <2>1. NoJam'
    BY <1>5, <1>t DEF CloseKindRaw, Occupied, NoJam
  <2> QED BY <1>5, <1>t, <2>1, SameBook, GateAssumption DEF CloseKindRaw, GTypeOK, OnePlace, NoCall
<1>6. CASE Leave
  <2>1. NoJam'
    BY <1>6, <1>t DEF Leave, Settled, OnePlace, NoJam
  <2> QED BY <1>6, <1>t, <2>1, SameBook, GateAssumption DEF Leave, Settled, GTypeOK, OnePlace, NoCall
<1>7. ASSUME NEW c \in Calls, GivenUp(c) PROVE GInd'
  <2>1. NoJam'
    BY <1>7, <1>t DEF GivenUp, Settled, NoJam
  <2> QED BY <1>7, <1>t, <2>1, SameBook, GateAssumption DEF GivenUp, Settled, GTypeOK, OnePlace, NoCall
<1>8. ASSUME NEW c \in Calls, ProbeAnswered(c) PROVE GInd'
  <2>1. NoJam'
    BY <1>8, <1>t DEF ProbeAnswered, NoJam
  <2> QED BY <1>8, <1>t, <2>1, SameBook, GateAssumption DEF ProbeAnswered, GTypeOK, OnePlace, NoCall
<1>9. ASSUME NEW c \in Calls, Refused(c) PROVE GInd'
  BY <1>9, <1>t DEF Refused, GInd, GTypeOK, OnePlace, Ordered, InOrder, NoJam
<1>10. CASE GuestEnters \/ GuestLeaves \/ UNCHANGED gvars
  BY <1>10, <1>t DEF GuestEnters, GuestLeaves, gvars, GInd, GTypeOK, OnePlace, Ordered, InOrder, NoJam
<1> QED BY <1>1, <1>2, <1>3, <1>4, <1>5, <1>6, <1>7, <1>8, <1>9, <1>10 DEF GNext

\* Whatever the guest's own tasks, refusals and give-ups do to it, the order of the calls
\* is kept at every place a call can be.
THEOREM GateInvariant == GSpec => []GInd
<1> QED BY InitGInd, NextGInd, PTL DEF GSpec

\* app.mjs serializeSession, "keystrokes stay in the order they were typed", for any
\* number of calls.
THEOREM GateKeepsOrder == GSpec => []InOrder
<1>1. GInd => InOrder
  BY DEF GInd
<1> QED BY <1>1, GateInvariant, PTL

\* app.mjs serializeSession, "a failed call must not jam the calls behind it": the chain
\* never waits for a call that is gone, whatever fails or is given up.
THEOREM GateNeverJams == GSpec => []NoJam
<1>1. GInd => NoJam
  BY DEF GInd
<1> QED BY <1>1, GateInvariant, PTL
-----------------------------------------------------------------------------
\* Where everyone who waits is, when the chain and the door are left alone.
LEMMA SameLine ==
  ASSUME UNCHANGED chain, AtTheDoor' = AtTheDoor
  PROVE  Waiting' = Waiting
  BY DEF Waiting, ChainTags

LEMMA StepOfTheDoor ==
  GInd /\ [GNext]_gvars => [TheDoor!DNext]_<<made, Waiting, entered>>
<1> SUFFICES ASSUME GInd, [GNext]_gvars
             PROVE  TheDoor!DNext \/ UNCHANGED <<made, Waiting, entered>>
  BY DEF GInd
<1>t. GTypeOK /\ OnePlace /\ Ordered
  BY DEF GInd
<1>n. /\ made \in Nat /\ serving \in Nat /\ serving <= made
      /\ Len(chain) \in Nat /\ \A i \in 1..Len(chain) : chain[i] \in Nat \ {0}
      /\ \A c \in patient \cup awaiting : c \in Nat \ {0} /\ c <= made
  BY <1>t, Numbers
<1>1. CASE Gated
  <2>1. /\ made' = made + 1 /\ chain' = Append(chain, made + 1)
        /\ UNCHANGED <<serving, patient, entered>> /\ made + 1 \in Calls
    BY <1>1, <1>n, GateAssumption DEF Gated, Calls
  <2>2. /\ Len(chain') = Len(chain) + 1
        /\ \A i \in 1..Len(chain') :
             chain'[i] = IF i = Len(chain) + 1 THEN made + 1 ELSE chain[i]
    BY <2>1, <1>t DEF GTypeOK
  <2>3. ChainTags' = ChainTags \cup {made + 1}
    BY <2>2, <1>n DEF ChainTags
  <2>4. Waiting' = Waiting \cup {made + 1}
    BY <2>1, <2>3 DEF Waiting, AtTheDoor
  <2> QED BY <2>1, <2>4 DEF TheDoor!DNext, TheDoor!Take
<1>2. CASE Probe
  <2>1. /\ made' = made + 1 /\ patient' = patient \cup {made + 1}
        /\ UNCHANGED <<serving, chain, entered>>
    BY <1>2 DEF Probe
  <2>2. AtTheDoor' = AtTheDoor
    BY <2>1, <1>n DEF AtTheDoor
  <2> QED BY <2>1, <2>2, SameLine DEF TheDoor!DNext, TheDoor!PassBy
<1>3. CASE CloseKindRaw
  <2>1. made' = made + 1 /\ UNCHANGED <<serving, chain, entered, patient>>
    BY <1>3 DEF CloseKindRaw
  <2>2. AtTheDoor' = AtTheDoor
    BY <2>1 DEF AtTheDoor
  <2> QED BY <2>1, <2>2, SameLine DEF TheDoor!DNext, TheDoor!PassBy
<1>4. CASE Turn
  <2>1. /\ chain # <<>> /\ serving = NoCall /\ serving' = Head(chain) /\ chain' = Tail(chain)
        /\ patient' = patient \cup {Head(chain)} /\ UNCHANGED <<made, entered>>
    BY <1>4 DEF Turn
  <2>2. /\ Len(chain) \in Nat \ {0} /\ Head(chain) = chain[1] /\ Len(chain') = Len(chain) - 1
        /\ \A i \in 1..Len(chain') : chain'[i] = chain[i + 1]
    BY <2>1, <1>t DEF GTypeOK
  <2>3. AtTheDoor = {} /\ AtTheDoor' = {chain[1]}
    BY <2>1, <2>2, <1>n DEF AtTheDoor, NoCall
  <2>4. ChainTags = ChainTags' \cup {chain[1]}
    <3>1. ASSUME NEW i \in 1..Len(chain) PROVE chain[i] \in ChainTags' \cup {chain[1]}
      <4>1. i = 1 \/ (i - 1 \in 1..Len(chain') /\ chain'[i - 1] = chain[i])
        BY <2>2
      <4> QED BY <4>1 DEF ChainTags
    <3>2. ASSUME NEW i \in 1..Len(chain') PROVE chain'[i] \in ChainTags
      <4>1. i + 1 \in 1..Len(chain) /\ chain'[i] = chain[i + 1]
        BY <2>2
      <4> QED BY <4>1 DEF ChainTags
    <3>3. chain[1] \in ChainTags
      BY <2>2 DEF ChainTags
    <3> QED BY <3>1, <3>2, <3>3 DEF ChainTags
  <2> QED BY <2>1, <2>3, <2>4 DEF Waiting
<1>5. CASE Leave
  <2>1. /\ UNCHANGED <<made, chain, patient, entered>>
        /\ serving' = serving \/ (serving = inside /\ serving' = NoCall)
    BY <1>5 DEF Leave, Settled
  <2>2. AtTheDoor' = AtTheDoor
    BY <2>1, <1>t, <1>n DEF AtTheDoor, OnePlace, NoCall
  <2> QED BY <2>1, <2>2, SameLine
<1>6. ASSUME NEW c \in Calls, Enter(c)
      PROVE  TheDoor!DNext \/ UNCHANGED <<made, Waiting, entered>>
  <2>1. c \in patient /\ patient' = patient \ {c} /\ UNCHANGED <<made, chain, serving>>
    BY <1>6 DEF Enter
  <2>2. CASE c \in awaiting
    <3>1. UNCHANGED entered /\ AtTheDoor' = AtTheDoor
      BY <1>6, <2>1, <2>2, <1>t DEF Enter, AtTheDoor, OnePlace
    <3> QED BY <2>1, <3>1, SameLine
  <2>3. CASE c \notin awaiting
    <3>1. c = serving /\ entered' = Append(entered, c)
      BY <1>6, <2>1, <2>3, <1>t DEF Enter, OnePlace
    <3>2. AtTheDoor = {c} /\ AtTheDoor' = {} /\ ChainTags' = ChainTags
      BY <2>1, <3>1 DEF AtTheDoor, ChainTags
    <3>3. \A t \in ChainTags : c < t
      BY <3>1, <1>t DEF Ordered, ChainTags
    <3>4. \A t \in ChainTags : t \in Nat
      BY <1>n DEF ChainTags
    <3>5. TheDoor!First(c) /\ Waiting' = Waiting \ {c}
      BY <3>1, <3>2, <3>3, <3>4, <1>n DEF TheDoor!First, Waiting
    <3>6. c \in Waiting
      BY <3>2 DEF Waiting
    <3> QED BY <2>1, <3>1, <3>5, <3>6 DEF TheDoor!DNext, TheDoor!Admit
  <2> QED BY <2>2, <2>3
<1>7. ASSUME NEW c \in Calls, GivenUp(c)
      PROVE  TheDoor!DNext \/ UNCHANGED <<made, Waiting, entered>>
  <2>1. /\ c \in patient /\ patient' = patient \ {c} /\ UNCHANGED <<made, chain, entered>>
        /\ serving' = IF serving = c THEN NoCall ELSE serving
    BY <1>7 DEF GivenUp, Settled
  <2>2. CASE c # serving
    <3>1. AtTheDoor' = AtTheDoor
      BY <2>1, <2>2 DEF AtTheDoor
    <3> QED BY <2>1, <3>1, SameLine
  <2>3. CASE c = serving
    <3>2. AtTheDoor = {c} /\ AtTheDoor' = {} /\ ChainTags' = ChainTags
      BY <2>1, <2>3, <1>n DEF AtTheDoor, ChainTags, NoCall
    <3>3. \A t \in ChainTags : c < t
      BY <2>3, <1>t DEF Ordered, ChainTags
    <3>4. \A t \in ChainTags : t \in Nat
      BY <1>n DEF ChainTags
    <3>5. TheDoor!First(c) /\ Waiting' = Waiting \ {c}
      BY <2>3, <3>2, <3>3, <3>4, <1>n DEF TheDoor!First, Waiting
    <3>6. c \in Waiting
      BY <3>2 DEF Waiting
    <3> QED BY <2>1, <3>5, <3>6 DEF TheDoor!DNext, TheDoor!TurnAway
  <2> QED BY <2>2, <2>3
<1>8. ASSUME NEW c \in Calls, Refused(c) \/ ProbeAnswered(c)
      PROVE  UNCHANGED <<made, Waiting, entered>>
  <2>1. UNCHANGED <<made, chain, serving, patient, entered>>
    BY <1>8 DEF Refused, ProbeAnswered
  <2> QED BY <2>1, SameLine DEF AtTheDoor
<1>9. CASE GuestEnters \/ GuestLeaves \/ UNCHANGED gvars
  <2>1. UNCHANGED <<made, chain, serving, patient, entered>>
    BY <1>9 DEF GuestEnters, GuestLeaves, gvars
  <2> QED BY <2>1, SameLine DEF AtTheDoor
<1> QED BY <1>1, <1>2, <1>3, <1>4, <1>5, <1>6, <1>7, <1>8, <1>9 DEF GNext

\* The promise chain with its patient retries is the line of Door, for any number of
\* calls, of refusals, and whatever the guest's tasks do in between.
THEOREM GateImplementsDoor == GSpec => KeepsTheLine
<1>1. GInit => TheDoor!DInit
  BY DEF GInit, TheDoor!DInit, Waiting, AtTheDoor, ChainTags
<1>2. GInd /\ [GNext]_gvars => [TheDoor!DNext]_TheDoor!dvars
  BY StepOfTheDoor DEF TheDoor!dvars
<1> QED BY <1>1, <1>2, GateInvariant, PTL DEF GSpec, KeepsTheLine, TheDoor!DSpec
=============================================================================
