--------------------------- MODULE Browser_proofs ---------------------------
(***************************************************************************)
(* Parts of the page that share no state, each for every value of its      *)
(* constants: the Esc watch never shows its hint without the pattern that  *)
(* earns it; the tabs of one browser share one identity, and a stored      *)
(* passkey record asks for the credential that holds its key; no dump of   *)
(* the terminal under one host's key ever holds what another host printed; *)
(* a held selection keeps its lines, and no refit it deferred is lost; a   *)
(* drag is one gesture; the connection cards are what the user made them.  *)
(***************************************************************************)
EXTENDS EscWatch, Keys, Terminal, Mirror, Gestures, Cards, TLAPS

(***************************************************************************)
(* EscWatch.                                                               *)
(***************************************************************************)

Blur == [at : Nat, typed : BOOLEAN]

LEMMA InitEInd == EInit => EInd
  BY EscWatchAssumption
     DEF EInit, EInd, ETypeOK, ArmedByTyping, RemembersLast, AtWork, HintIsEarned, LongAgo

LEMMA NextEInd == EInd /\ [ENext]_evars => EInd'
<1> SUFFICES ASSUME EInd, [ENext]_evars PROVE EInd'
  OBVIOUS
<1> USE EscWatchAssumption
<1>t. ETypeOK /\ ArmedByTyping /\ RemembersLast /\ AtWork /\ HintIsEarned
  BY DEF EInd
<1>1. CASE ShapeBlur
  <2> DEFINE blur == [at |-> time, typed |-> TypingCorrelated]
  <2>1. /\ detecting /\ time' = time /\ lastInputAt' = lastInputAt
        /\ detecting' = ~Fires /\ banner' = (banner \/ Fires)
        /\ armed' = (armed \/ TypingCorrelated) /\ lastShapeBlurAt' = time
        /\ blurs' = Append(blurs, blur) /\ escaped' = escaped /\ dismissed' = dismissed
    BY <1>1 DEF ShapeBlur
  <2>2. blur \in Blur /\ blur.at = time /\ blur.typed = TypingCorrelated
    BY <1>t DEF ETypeOK, Blur, TypingCorrelated, Recent
  <2> HIDE DEF blur
  <2>3. /\ blurs' \in Seq(Blur) /\ Len(blurs') = Len(blurs) + 1 /\ Len(blurs) \in Nat
        /\ blurs'[Len(blurs) + 1] = blur /\ \A i \in 1..Len(blurs) : blurs'[i] = blurs[i]
    BY <1>t, <2>1, <2>2 DEF ETypeOK, Blur
  <2>4. ETypeOK'
    BY <1>t, <2>1, <2>3 DEF ETypeOK, Blur
  <2>5. ArmedByTyping'
    <3>1. ASSUME armed PROVE \E i \in 1..Len(blurs') : blurs'[i].typed
      <4>1. PICK i \in 1..Len(blurs) : blurs[i].typed
        BY <1>t, <3>1 DEF ArmedByTyping
      <4>2. i \in 1..Len(blurs') /\ blurs'[i] = blurs[i]
        BY <2>3, <4>1
      <4> QED BY <4>1, <4>2
    <3>2. ASSUME TypingCorrelated PROVE \E i \in 1..Len(blurs') : blurs'[i].typed
      <4>1. Len(blurs) + 1 \in 1..Len(blurs')
        BY <2>3
      <4>2. blurs'[Len(blurs) + 1].typed
        BY <2>2, <2>3, <3>2
      <4> QED BY <4>1, <4>2
    <3> QED BY <2>1, <3>1, <3>2 DEF ArmedByTyping
  <2>6. RemembersLast'
    BY <2>1, <2>2, <2>3 DEF RemembersLast
  <2>7. ~banner /\ ~escaped /\ ~dismissed
    BY <1>t, <2>1 DEF AtWork
  <2>8. AtWork'
    BY <2>1, <2>7 DEF AtWork
  <2>9. HintIsEarned'
    <3> SUFFICES ASSUME Fires PROVE HintIsEarned'
      BY <2>1, <2>7 DEF HintIsEarned
    <3>1. PICK i \in 1..Len(blurs) : blurs[i].typed
      BY <1>t DEF Fires, ArmedByTyping
    <3> DEFINE j == Len(blurs) + 1
    <3>2. i \in 1..Len(blurs') /\ j \in 1..Len(blurs') /\ i < j /\ blurs'[i].typed
      BY <2>3, <3>1
    <3>3. blurs'[j] = blur /\ blurs'[j - 1] = blurs[Len(blurs)]
      BY <2>3, <3>1
    <3>4. blurs'[j].typed \/ blurs'[j].at - blurs'[j - 1].at < RETRY_WINDOW
      <4>1. CASE TypingCorrelated
        BY <4>1, <2>2, <3>3
      <4>2. CASE Recent(lastShapeBlurAt, RETRY_WINDOW)
        <5>1. lastShapeBlurAt = blurs[Len(blurs)].at
          BY <1>t, <2>3, <3>1 DEF RemembersLast
        <5> QED BY <4>2, <5>1, <2>2, <3>3 DEF Recent
      <4> QED BY <4>1, <4>2 DEF Fires
    <3> HIDE DEF j
    <3> QED BY <2>1, <2>7, <3>2, <3>4 DEF HintIsEarned
  <2> QED BY <2>4, <2>5, <2>6, <2>8, <2>9 DEF EInd
<1>2. CASE TimePasses \/ TermData \/ Explain \/ UNCHANGED evars
  <2>1. /\ UNCHANGED <<lastShapeBlurAt, armed, detecting, banner, blurs, escaped, dismissed>>
        /\ time' \in Nat /\ lastInputAt' \in Int
    BY <1>2, <1>t DEF TimePasses, TermData, Explain, evars, ETypeOK
  <2> QED BY <1>t, <2>1
          DEF EInd, ETypeOK, ArmedByTyping, RemembersLast, AtWork, HintIsEarned
<1>3. CASE EscapeSeen \/ DismissHint
  <2>1. /\ UNCHANGED <<time, lastInputAt, lastShapeBlurAt, armed, blurs>>
        /\ ~banner' /\ ~detecting'
    BY <1>3, <1>t DEF EscapeSeen, DismissHint, AtWork
  <2> QED BY <1>t, <2>1
          DEF EInd, ETypeOK, ArmedByTyping, RemembersLast, AtWork, HintIsEarned
<1> QED BY <1>1, <1>2, <1>3 DEF ENext

\* esc-watch.mjs, "it should never land wrong": the hint takes two blurs in a pattern and
\* a user whose Esc has never come through, however long the page is open.
THEOREM HintNeedsItsPattern == ESpec => []HintIsEarned
<1>1. EInd => HintIsEarned
  BY DEF EInd
<1> QED BY <1>1, InitEInd, NextEInd, PTL DEF ESpec
-----------------------------------------------------------------------------
(***************************************************************************)
(* Keys.                                                                   *)
(***************************************************************************)

\* A record that matches, whether it is one or NoRecord.
Matching(rec) == rec \in Rec /\ rec.cred \in {NoId, rec.key}

LEMMA InitKInd == KInit => KInd
  BY DEF KInit, KInd, KTypeOK, KeysMinted, CeremoniesMatch, OneIdentity, RecordMatches,
         Rec, NoKeyPair, NoPair, NoCeremony, NoRecord, NoId

\* A step of the identity alone.
LEMMA IdentityStep ==
  ASSUME KInd, UNCHANGED <<record, ceremony, creds>>,
         stored' \in Nat, mints' \in Nat,
         pair' \in [Tabs -> [pc : {"none", "minting", "have", "ephemeral"}, key : Nat]],
         KeysMinted', OneIdentity'
  PROVE  KInd'
  BY DEF KInd, KTypeOK, CeremoniesMatch, RecordMatches

\* A step of the passkey alone, that leaves one tab with a matching record in hand.
LEMMA PasskeyStep ==
  ASSUME KInd, UNCHANGED <<stored, pair, mints>>, creds' \in Nat,
         NEW t \in Tabs, NEW pc \in {"idle", "asserting", "saving"}, NEW rec, Matching(rec),
         ceremony' = [ceremony EXCEPT ![t] = [pc |-> pc, rec |-> rec]],
         Matching(record')
  PROVE  KInd'
<1>1. KTypeOK'
  BY DEF KInd, KTypeOK, Matching, Rec
<1>2. CeremoniesMatch'
  <2>1. \A u \in Tabs : ceremony'[u].rec = IF u = t THEN rec ELSE ceremony[u].rec
    BY DEF KInd, KTypeOK
  <2> QED BY <2>1 DEF KInd, CeremoniesMatch, Matching
<1>3. RecordMatches'
  BY DEF RecordMatches, Matching
<1> QED BY <1>1, <1>2, <1>3 DEF KInd, KeysMinted, OneIdentity

LEMMA MatchingInHand ==
  ASSUME KInd, NEW t \in Tabs
  PROVE  Matching(ceremony[t].rec) /\ Matching(record) /\ Matching(NoRecord)
<1>1. Matching(ceremony[t].rec)
  BY DEF KInd, KTypeOK, CeremoniesMatch, Matching
<1>2. Matching(NoRecord)
  BY DEF Matching, NoRecord, Rec, NoId
<1>3. Matching(record)
  BY <1>2 DEF KInd, KTypeOK, RecordMatches, Matching
<1> QED BY <1>1, <1>2, <1>3

LEMMA NextKInd == KInd /\ [KNext]_kvars => KInd'
<1> SUFFICES ASSUME KInd, [KNext]_kvars PROVE KInd'
  OBVIOUS
<1>t. KTypeOK /\ KeysMinted /\ OneIdentity
  BY DEF KInd
<1>1. ASSUME NEW t \in Tabs, Load(t) PROVE KInd'
  <2>1. UNCHANGED <<stored, record, ceremony, creds>> /\ mints' \in Nat
    BY <1>1, <1>t DEF Load, passkey, KTypeOK
  <2>2. PICK pc \in {"have", "minting"}, k \in Nat :
          /\ pair' = [pair EXCEPT ![t] = [pc |-> pc, key |-> k]]
          /\ k # NoKeyPair /\ (pc = "have" => k = stored)
    BY <1>1, <1>t DEF Load, KTypeOK, NoKeyPair
  <2>3. pair' \in [Tabs -> [pc : {"none", "minting", "have", "ephemeral"}, key : Nat]]
    BY <2>2, <1>t DEF KTypeOK
  <2>4. KeysMinted' /\ OneIdentity'
    BY <2>1, <2>2, <1>t DEF KTypeOK, KeysMinted, OneIdentity
  <2> QED BY <2>1, <2>3, <2>4, <1>t, IdentityStep DEF KTypeOK
<1>2. ASSUME NEW t \in Tabs, SettleOwnership(t) PROVE KInd'
  <2>1. /\ UNCHANGED <<mints, record, ceremony, creds>>
        /\ stored' = IF stored # NoKeyPair THEN stored ELSE pair[t].key
        /\ pair' = [pair EXCEPT ![t] = [pc |-> "have", key |-> stored']]
        /\ pair[t].key \in Nat /\ pair[t].key # NoKeyPair
    BY <1>2, <1>t DEF SettleOwnership, Winner, passkey, KTypeOK, KeysMinted
  <2>2. stored' \in Nat /\ stored' # NoKeyPair
    BY <2>1, <1>t DEF KTypeOK
  <2>3. pair' \in [Tabs -> [pc : {"none", "minting", "have", "ephemeral"}, key : Nat]]
    BY <2>1, <2>2, <1>t DEF KTypeOK
  <2>4. KeysMinted'
    BY <2>1, <2>2, <1>t DEF KTypeOK, KeysMinted
  <2>5. OneIdentity'
    <3>1. ASSUME NEW u \in Tabs, pair'[u].pc = "have", u # t PROVE pair'[u].key = stored'
      <4>1. pair'[u] = pair[u]
        BY <2>1, <3>1, <1>t DEF KTypeOK
      <4>2. pair[u].key = stored /\ stored # NoKeyPair
        BY <3>1, <4>1, <1>t DEF OneIdentity, KeysMinted
      <4> QED BY <2>1, <4>1, <4>2
    <3>2. pair'[t].key = stored'
      BY <2>1, <1>t DEF KTypeOK
    <3> QED BY <3>1, <3>2 DEF OneIdentity
  <2> QED BY <2>1, <2>2, <2>3, <2>4, <2>5, <1>t, IdentityStep DEF KTypeOK
<1>3. ASSUME NEW t \in Tabs, Ephemeral(t) PROVE KInd'
  <2>1. /\ UNCHANGED <<stored, record, ceremony, creds>> /\ mints' \in Nat
        /\ pair' = [pair EXCEPT ![t] = [pc |-> "ephemeral", key |-> mints + 1]]
    BY <1>3, <1>t DEF Ephemeral, passkey, KTypeOK
  <2>2. pair' \in [Tabs -> [pc : {"none", "minting", "have", "ephemeral"}, key : Nat]]
    BY <2>1, <1>t DEF KTypeOK
  <2>3. KeysMinted' /\ OneIdentity'
    BY <2>1, <1>t DEF KTypeOK, KeysMinted, OneIdentity
  <2> QED BY <2>1, <2>2, <2>3, <1>t, IdentityStep DEF KTypeOK
<1>4. ASSUME NEW t \in Tabs, ReloadTab(t) PROVE KInd'
  <2>1. /\ UNCHANGED <<stored, mints, record, creds>>
        /\ pair' = [pair EXCEPT ![t] = [pc |-> "none", key |-> 0]]
        /\ ceremony' = [ceremony EXCEPT ![t] = [pc |-> "idle", rec |-> NoRecord]]
    BY <1>4 DEF ReloadTab, NoPair, NoCeremony, NoKeyPair
  <2>2. KTypeOK'
    BY <2>1, <1>t DEF KTypeOK, Rec, NoRecord, NoId
  <2>3. KeysMinted' /\ OneIdentity'
    BY <2>1, <1>t DEF KTypeOK, KeysMinted, OneIdentity
  <2>4. CeremoniesMatch'
    <3>1. \A u \in Tabs : ceremony'[u].rec = IF u = t THEN NoRecord ELSE ceremony[u].rec
      BY <2>1, <1>t DEF KTypeOK
    <3> QED BY <3>1 DEF KInd, CeremoniesMatch, NoRecord
  <2>5. RecordMatches'
    BY <2>1 DEF KInd, RecordMatches
  <2> QED BY <2>2, <2>3, <2>4, <2>5 DEF KInd
<1>5. ASSUME NEW t \in Tabs, Enroll(t) \/ Adopt(t) \/ Recover(t) PROVE KInd'
  <2>1. /\ UNCHANGED <<stored, pair, mints, record>> /\ creds' \in Nat
        /\ \E rec : /\ Matching(rec)
                    /\ ceremony' = [ceremony EXCEPT ![t] = [pc |-> "saving", rec |-> rec]]
    <3>1. CASE Enroll(t)
      <4>1. PICK hinted \in BOOLEAN :
              InCeremony(t, "saving", [key |-> creds + 1, cred |-> creds + 1, hinted |-> hinted])
        BY <3>1 DEF Enroll
      <4>2. Matching([key |-> creds + 1, cred |-> creds + 1, hinted |-> hinted])
        BY <1>t DEF Matching, Rec, KTypeOK
      <4>3. UNCHANGED <<stored, pair, mints, record>> /\ creds' \in Nat
        BY <3>1, <1>t DEF Enroll, identity, KTypeOK
      <4> QED BY <4>1, <4>2, <4>3 DEF InCeremony
    <3>2. CASE Adopt(t)
      <4>1. PICK claimed \in 1..creds, picked \in 1..creds, hinted \in BOOLEAN :
              /\ Verifies(claimed, picked)
              /\ InCeremony(t, "saving", [key |-> claimed, cred |-> picked, hinted |-> hinted])
        BY <3>2 DEF Adopt
      <4>2. Matching([key |-> claimed, cred |-> picked, hinted |-> hinted])
        BY <4>1, <1>t DEF Matching, Rec, KTypeOK, Verifies
      <4>3. UNCHANGED <<stored, pair, mints, record>> /\ creds' \in Nat
        BY <3>2, <1>t DEF Adopt, identity, KTypeOK
      <4> QED BY <4>1, <4>2, <4>3 DEF InCeremony
    <3>3. CASE Recover(t)
      <4>1. PICK first \in 1..creds, second \in 1..creds :
              /\ first = second
              /\ InCeremony(t, "saving", [key |-> first, cred |-> second, hinted |-> FALSE])
        BY <3>3 DEF Recover
      <4>2. Matching([key |-> first, cred |-> second, hinted |-> FALSE])
        BY <4>1, <1>t DEF Matching, Rec, KTypeOK
      <4>3. UNCHANGED <<stored, pair, mints, record>> /\ creds' \in Nat
        BY <3>3, <1>t DEF Recover, identity, KTypeOK
      <4> QED BY <4>1, <4>2, <4>3 DEF InCeremony
    <3> QED BY <1>5, <3>1, <3>2, <3>3
  <2>2. PICK rec : /\ Matching(rec)
                   /\ ceremony' = [ceremony EXCEPT ![t] = [pc |-> "saving", rec |-> rec]]
    BY <2>1
  <2>3. Matching(record')
    BY <2>1, MatchingInHand
  <2> QED BY <2>1, <2>2, <2>3, PasskeyStep
<1>6. ASSUME NEW t \in Tabs, AssertPasskey(t) PROVE KInd'
  <2>1. /\ UNCHANGED <<stored, pair, mints, record, creds>>
        /\ ceremony' = [ceremony EXCEPT ![t] = [pc |-> "asserting", rec |-> record]]
    BY <1>6 DEF AssertPasskey, InCeremony, identity
  <2> QED BY <2>1, <1>t, MatchingInHand, PasskeyStep DEF KTypeOK
<1>7. ASSUME NEW t \in Tabs, Asserted(t) PROVE KInd'
  <2> DEFINE rec == ceremony[t].rec
  <2>1. UNCHANGED <<stored, pair, mints, record, creds>>
    BY <1>7 DEF Asserted, identity
  <2>2. PICK picked \in IF rec.cred = NoId THEN 1..creds ELSE {rec.cred}, hinted \in BOOLEAN :
          IF Verifies(rec.key, picked) /\ Learned(rec, picked, hinted) # rec
          THEN InCeremony(t, "saving", Learned(rec, picked, hinted))
          ELSE InCeremony(t, "idle", NoRecord)
    BY <1>7 DEF Asserted
  <2>3. Matching(rec) /\ Matching(NoRecord) /\ Matching(record')
    BY <2>1, MatchingInHand
  <2>4. CASE Verifies(rec.key, picked) /\ Learned(rec, picked, hinted) # rec
    <3>1. rec \in Rec /\ picked = rec.key
      BY <2>3, <2>4 DEF Matching, Verifies
    <3>2. Matching(Learned(rec, picked, hinted))
      BY <2>3, <3>1 DEF Matching, Learned, Rec
    <3>3. ceremony' = [ceremony EXCEPT ![t] = [pc |-> "saving", rec |-> Learned(rec, picked, hinted)]]
      BY <2>2, <2>4 DEF InCeremony
    <3> QED BY <2>1, <2>3, <3>2, <3>3, <1>t, PasskeyStep DEF KTypeOK
  <2>5. CASE ~(Verifies(rec.key, picked) /\ Learned(rec, picked, hinted) # rec)
    <3>1. ceremony' = [ceremony EXCEPT ![t] = [pc |-> "idle", rec |-> NoRecord]]
      BY <2>2, <2>5 DEF InCeremony
    <3> QED BY <2>1, <2>3, <3>1, <1>t, PasskeyStep DEF KTypeOK
  <2> QED BY <2>4, <2>5
<1>8. ASSUME NEW t \in Tabs, SaveRecord(t) PROVE KInd'
  <2>1. /\ UNCHANGED <<stored, pair, mints, creds>> /\ record' = ceremony[t].rec
        /\ ceremony' = [ceremony EXCEPT ![t] = [pc |-> "idle", rec |-> NoRecord]]
    BY <1>8 DEF SaveRecord, InCeremony, identity
  <2> QED BY <2>1, <1>t, MatchingInHand, PasskeyStep DEF KTypeOK
<1>9. ASSUME NEW t \in Tabs, Forget(t) PROVE KInd'
  <2>1. UNCHANGED <<stored, pair, mints, creds, ceremony>> /\ record' = NoRecord
    BY <1>9 DEF Forget, Cleared, identity
  <2>2. Matching(NoRecord)
    BY MatchingInHand
  <2> QED BY <2>1, <2>2, <1>t
          DEF KInd, KTypeOK, KeysMinted, CeremoniesMatch, OneIdentity, RecordMatches, Matching
<1>10. CASE UNCHANGED kvars
  BY <1>10 DEF kvars, KInd, KTypeOK, KeysMinted, CeremoniesMatch, OneIdentity, RecordMatches
<1> QED BY <1>1, <1>2, <1>3, <1>4, <1>5, <1>6, <1>7, <1>8, <1>9, <1>10 DEF KNext

LEMMA KeysInvariant == KSpec => []KInd
<1> QED BY InitKInd, NextKInd, PTL DEF KSpec

\* loadOrMint: "when two tabs race, both observe the same winner", for any number of tabs.
THEOREM TabsShareOneIdentity == KSpec => []OneIdentity
<1>1. KInd => OneIdentity
  BY DEF KInd
<1> QED BY <1>1, KeysInvariant, PTL

\* passkey-store.ts: whatever tabs enrol, adopt, recover, assert and forget over each
\* other, the record stored asks for the credential that holds its key.
THEOREM StoredRecordMatches == KSpec => []RecordMatches
<1>1. KInd => RecordMatches
  BY DEF KInd
<1> QED BY <1>1, KeysInvariant, PTL
-----------------------------------------------------------------------------
(***************************************************************************)
(* Terminal.                                                               *)
(***************************************************************************)

\* A pump that is there or is not, and prints for its own key alone.
Honest(p) == p \in Pump /\ p.key \in {NoKey, p.host} /\ (p # NoPump => p.host \in Targets)

LEMMA InitTInd == TInit => TInd
<1> SUFFICES ASSUME TInit PROVE TInd
  OBVIOUS
<1>1. chunks = <<>> /\ screen = {} /\ Tags(chunks) = {} /\ puts = {}
  BY DEF TInit, Tags
<1>2. TTypeOK
  BY <1>1 DEF TInit, TTypeOK, Pump, NoPump, NoKey
<1>3. PumpsHonest /\ OwnedByOne /\ PutsOfOne /\ NoCrossKey
  BY <1>1, TerminalAssumption
     DEF TInit, PumpsHonest, OwnedByOne, PutsOfOne, NoCrossKey, NoPump, NoKey
<1> QED BY <1>2, <1>3 DEF TInd

LEMMA HonestPumps == TInd => Honest(pump) /\ Honest(late) /\ Honest(NoPump)
  BY DEF TInd, TTypeOK, PumpsHonest, Honest, Pump, NoPump, NoKey

\* Nothing but the pumps, what is shown, who owns it and what is being saved is in TInd;
\* a step keeps it that keeps each of these right.
LEMMA KeepsTInd ==
  ASSUME TInd,
         Honest(pump'), Honest(late'),
         chunks' \in Seq(Targets), screen' \subseteq Targets,
         owner' \in Targets \cup {NoKey, "unkeyed", Mixed},
         OwnedByOne',
         store' \in [Targets -> SUBSET Targets], NoCrossKey',
         puts' \subseteq [key : Targets, dump : SUBSET Targets], PutsOfOne'
  PROVE  TInd'
  BY DEF TInd, TTypeOK, PumpsHonest, Honest

\* What a step leaves alone stays right: the screen, the store, the saves on their way.
LEMMA ShownStays ==
  ASSUME TInd, UNCHANGED <<chunks, screen, owner>>
  PROVE  /\ chunks' \in Seq(Targets) /\ screen' \subseteq Targets
         /\ owner' \in Targets \cup {NoKey, "unkeyed", Mixed} /\ OwnedByOne'
<1>1. Tags(chunks') = Tags(chunks)
  BY DEF Tags
<1> QED BY <1>1 DEF TInd, TTypeOK, OwnedByOne

LEMMA StoreStays ==
  ASSUME TInd, UNCHANGED store
  PROVE  store' \in [Targets -> SUBSET Targets] /\ NoCrossKey'
  BY DEF TInd, TTypeOK, NoCrossKey

LEMMA PutsStay ==
  ASSUME TInd, puts' \subseteq puts
  PROVE  puts' \subseteq [key : Targets, dump : SUBSET Targets] /\ PutsOfOne'
  BY DEF TInd, TTypeOK, PutsOfOne

\* claimTerminal lets a key own the terminal only while all that is on it is the key's.
LEMMA ClaimedIsOwned ==
  ASSUME TTypeOK, OwnedByOne, NEW key \in Targets \cup {NoKey}
  PROVE  /\ Claimed(owner, key) \in Targets \cup {NoKey, "unkeyed", Mixed}
         /\ Claimed(owner, key) # NoKey
         /\ Claimed(owner, key) \in Targets
              => key = Claimed(owner, key) /\ screen \cup Tags(chunks) \subseteq {key}
  BY TerminalAssumption DEF TTypeOK, OwnedByOne, Claimed, NoKey, Mixed

\* saveScrollback stores what its owner alone has put on the screen.
LEMMA SavesOwn ==
  ASSUME TInd, NEW key \in Targets \cup {NoKey},
         NEW shown \in SUBSET Targets, shown \subseteq screen \cup Tags(chunks),
         Saves(key, shown)
  PROVE  puts' \subseteq [key : Targets, dump : SUBSET Targets] /\ PutsOfOne'
<1>1. CASE UNCHANGED puts
  BY <1>1, PutsStay
<1>2. CASE /\ key # NoKey /\ owner = key
           /\ puts' = puts \cup {[key |-> key, dump |-> shown]}
  <2>1. key \in Targets
    BY <1>2
  <2>2. shown \subseteq {key}
    BY <1>2, <2>1 DEF TInd, OwnedByOne
  <2> QED BY <1>2, <2>1, <2>2 DEF TInd, TTypeOK, PutsOfOne
<1> QED BY <1>1, <1>2 DEF Saves

\* flush moves what is queued to the screen: the two together are what they were.
LEMMA FlushedIsOwned ==
  ASSUME TInd, Flushed, owner' = owner
  PROVE  chunks' \in Seq(Targets) /\ screen' \subseteq Targets /\ OwnedByOne'
<1>1. Tags(chunks) \subseteq Targets
  BY DEF TInd, TTypeOK, Tags
<1>2. chunks' = <<>> /\ Tags(chunks') = {} /\ screen' = screen \cup Tags(chunks)
  BY DEF Flushed, Tags
<1> QED BY <1>1, <1>2 DEF TInd, TTypeOK, OwnedByOne

LEMMA NextTInd == TInd /\ [TNext]_tvars => TInd'
<1> SUFFICES ASSUME TInd, [TNext]_tvars PROVE TInd'
  OBVIOUS
<1>t. /\ TTypeOK /\ PumpsHonest /\ OwnedByOne /\ PutsOfOne /\ NoCrossKey
      /\ Honest(pump) /\ Honest(late) /\ Honest(NoPump)
  BY HonestPumps DEF TInd
<1>k. pump.key \in Targets \cup {NoKey} /\ late.key \in Targets \cup {NoKey}
  BY <1>t DEF Honest, Pump
<1>c. Tags(chunks) \subseteq Targets
  BY <1>t DEF TTypeOK, Tags
<1>1. ASSUME NEW t \in Targets, Connect(t) PROVE TInd'
  <2> DEFINE key == IF enabled THEN t ELSE NoKey
             dump == IF key = NoKey THEN {} ELSE store[key]
             restores == ~painted /\ ~restored /\ dump # {}
  <2>1. /\ pump' = [host |-> t, key |-> key] /\ late' \in {NoPump, pump}
        /\ screen' = (IF restores THEN screen \cup dump ELSE screen)
        /\ owner' = (IF restores THEN Claimed(owner, key) ELSE owner)
        /\ UNCHANGED <<chunks, store, puts>>
    BY <1>1 DEF Connect, saved
  <2>2. key \in {t, NoKey} /\ dump \subseteq {key} /\ dump \subseteq Targets
    BY <1>t DEF NoCrossKey, TTypeOK
  <2>3. Honest(pump') /\ Honest(late')
    BY <2>1, <2>2, <1>t DEF Honest, Pump
  <2>4. CASE restores
    <3>1. /\ owner' = Claimed(owner, key) /\ screen' = screen \cup dump
          /\ Tags(chunks') = Tags(chunks)
      BY <2>1, <2>4 DEF Tags
    <3>2. /\ owner' \in Targets \cup {NoKey, "unkeyed", Mixed} /\ owner' # NoKey
          /\ owner' \in Targets => key = owner' /\ screen \cup Tags(chunks) \subseteq {key}
      BY <3>1, <2>2, <1>t, ClaimedIsOwned
    <3>3. OwnedByOne' /\ screen' \subseteq Targets
      BY <3>1, <3>2, <2>2, <1>t DEF OwnedByOne, TTypeOK
    <3>4. chunks' \in Seq(Targets)
      BY <2>1, <1>t DEF TTypeOK
    <3> QED BY <2>1, <2>3, <3>2, <3>3, <3>4, StoreStays, PutsStay, KeepsTInd
  <2>5. CASE ~restores
    <3>1. UNCHANGED <<chunks, screen, owner>>
      BY <2>1, <2>5
    <3> QED BY <2>1, <2>3, <3>1, ShownStays, StoreStays, PutsStay, KeepsTInd
  <2> QED BY <2>4, <2>5
<1>2. ASSUME NEW p, Honest(p), Drained(p), Honest(pump'), Honest(late') PROVE TInd'
  <2>1. /\ p # NoPump /\ owner' = Claimed(owner, p.key) /\ chunks' = Append(chunks, p.host)
        /\ UNCHANGED <<screen, store, puts>>
    BY <1>2 DEF Drained, saved
  <2>2. p.host \in Targets /\ p.key \in {NoKey, p.host}
    BY <1>2, <2>1 DEF Honest
  <2>3. chunks' \in Seq(Targets) /\ Tags(chunks') = Tags(chunks) \cup {p.host}
    <3>1. /\ chunks' \in Seq(Targets) /\ Len(chunks) \in Nat /\ Len(chunks') = Len(chunks) + 1
          /\ \A i \in 1..Len(chunks') :
               chunks'[i] = IF i = Len(chunks) + 1 THEN p.host ELSE chunks[i]
      BY <2>1, <2>2, <1>t DEF TTypeOK
    <3> QED BY <3>1 DEF Tags
  <2>4. /\ owner' \in Targets \cup {NoKey, "unkeyed", Mixed} /\ owner' # NoKey
        /\ owner' \in Targets => p.key = owner' /\ screen \cup Tags(chunks) \subseteq {p.key}
    BY <2>1, <2>2, <1>t, ClaimedIsOwned
  <2>5. OwnedByOne'
    BY <2>1, <2>2, <2>3, <2>4, TerminalAssumption DEF OwnedByOne, NoKey
  <2>6. screen' \subseteq Targets
    BY <2>1, <1>t DEF TTypeOK
  <2> QED BY <1>2, <2>1, <2>3, <2>4, <2>5, <2>6, StoreStays, PutsStay, KeepsTInd
<1>3. CASE Drain
  <2>1. Drained(pump) /\ late' = late /\ pump' = pump
    BY <1>3 DEF Drain, Drained
  <2> QED BY <2>1, <1>2, <1>t
<1>4. CASE LateDrain
  <2>1. CASE Drained(late) /\ late' = NoPump
    <3>1. pump' = pump
      BY <2>1 DEF Drained
    <3> QED BY <2>1, <3>1, <1>2, <1>t
  <2>2. CASE late' = NoPump /\ UNCHANGED <<pump, chunks, screen, owner, store, puts>>
    BY <2>2, <1>t, ShownStays, StoreStays, PutsStay, KeepsTInd
  <2> QED BY <1>4, <2>1, <2>2 DEF LateDrain, saved
<1>5. CASE Frame \/ Timer
  <2>1. Flushed /\ UNCHANGED <<pump, late, owner, store, puts>>
    BY <1>5 DEF Frame, Timer, saved
  <2>2. owner' \in Targets \cup {NoKey, "unkeyed", Mixed}
    BY <2>1, <1>t DEF TTypeOK
  <2> QED BY <2>1, <2>2, <1>t, FlushedIsOwned, StoreStays, PutsStay, KeepsTInd
<1>6. CASE PeriodicSave
  <2>1. Saves(pump.key, screen) /\ UNCHANGED <<pump, late, owner, store, chunks, screen>>
    BY <1>6 DEF PeriodicSave, saved, paints
  <2>2. puts' \subseteq [key : Targets, dump : SUBSET Targets] /\ PutsOfOne'
    <3>1. screen \in SUBSET Targets
      BY <1>t DEF TTypeOK
    <3> QED BY <2>1, <3>1, <1>k, SavesOwn
  <2> QED BY <2>1, <2>2, <1>t, ShownStays, StoreStays, KeepsTInd
<1>7. CASE Hide \/ End
  <2>1. /\ Saves(pump.key, screen \cup Tags(chunks)) /\ pump' \in {pump, NoPump}
        /\ UNCHANGED <<late, owner, store>>
        /\ Flushed \/ UNCHANGED <<chunks, screen>>
    BY <1>7 DEF Hide, End, saved, paints
  <2>2. puts' \subseteq [key : Targets, dump : SUBSET Targets] /\ PutsOfOne'
    <3>1. screen \cup Tags(chunks) \in SUBSET Targets
      BY <1>c, <1>t DEF TTypeOK
    <3> QED BY <2>1, <3>1, <1>k, SavesOwn
  <2>3. chunks' \in Seq(Targets) /\ screen' \subseteq Targets /\ OwnedByOne'
    BY <2>1, FlushedIsOwned, ShownStays
  <2>4. owner' \in Targets \cup {NoKey, "unkeyed", Mixed}
    BY <2>1, <1>t DEF TTypeOK
  <2>5. Honest(pump') /\ Honest(late')
    BY <2>1, <1>t
  <2> QED BY <2>1, <2>2, <2>3, <2>4, <2>5, StoreStays, KeepsTInd
<1>8. CASE Reload
  <2>1. /\ pump' = NoPump /\ late' = NoPump /\ chunks' = <<>> /\ screen' = {}
        /\ owner' = NoKey /\ puts' = {} /\ UNCHANGED store
    BY <1>8 DEF Reload
  <2>2. Tags(chunks') = {}
    BY <2>1 DEF Tags
  <2> QED BY <2>1, <2>2, <1>t, TerminalAssumption, KeepsTInd
          DEF TTypeOK, OwnedByOne, PutsOfOne, NoCrossKey, NoKey
<1>9. ASSUME NEW p \in puts, Put(p) PROVE TInd'
  <2>1. /\ puts' = puts \ {p} /\ store' = [store EXCEPT ![p.key] = p.dump]
        /\ UNCHANGED <<pump, late, owner, chunks, screen>>
    BY <1>9 DEF Put, paints
  <2>2. p.key \in Targets /\ p.dump \in SUBSET Targets /\ p.dump \subseteq {p.key}
    BY <1>t DEF TTypeOK, PutsOfOne
  <2>3. store' \in [Targets -> SUBSET Targets] /\ NoCrossKey'
    BY <2>1, <2>2, <1>t DEF TTypeOK, NoCrossKey
  <2> QED BY <2>1, <2>3, <1>t, ShownStays, PutsStay, KeepsTInd
<1>10. CASE Prune \/ OptOut
  <2>1. /\ UNCHANGED <<pump, late, owner, chunks, screen, puts>>
        /\ store' \in [Targets -> SUBSET Targets] /\ \A k \in Targets : store'[k] \in {{}, store[k]}
    BY <1>10, <1>t DEF Prune, OptOut, paints, TTypeOK
  <2>2. NoCrossKey'
    BY <2>1, <1>t DEF NoCrossKey
  <2> QED BY <2>1, <2>2, <1>t, ShownStays, PutsStay, KeepsTInd
<1>11. CASE Show \/ OptIn \/ UNCHANGED tvars
  <2>1. UNCHANGED <<pump, late, owner, chunks, screen, puts, store>>
    BY <1>11 DEF Show, OptIn, tvars, saved, paints
  <2> QED BY <2>1, <1>t, ShownStays, StoreStays, PutsStay, KeepsTInd
<1> QED BY <1>1, <1>3, <1>4, <1>5, <1>6, <1>7, <1>8, <1>9, <1>10, <1>11 DEF TNext

LEMMA TerminalInvariant == TSpec => []TInd
<1> QED BY InitTInd, NextTInd, PTL DEF TSpec

\* app.mjs claimTerminal and saveScrollback: "the cross-key mix-up the ownership gate
\* exists to stop" never happens, whatever sessions supersede each other, are restored,
\* drain late or race the store.
THEOREM DumpsNeverMix == TSpec => []NoCrossKey
<1>1. TInd => NoCrossKey
  BY DEF TInd
<1> QED BY <1>1, TerminalInvariant, PTL
-----------------------------------------------------------------------------
(***************************************************************************)
(* Mirror.                                                                 *)
(***************************************************************************)

\* The least and the greatest of a pair, and of a run of integers.
LEMMA PairMin ==
  ASSUME NEW a \in Int, NEW b \in Int
  PROVE  Min({a, b}) \in {a, b} /\ Min({a, b}) <= a /\ Min({a, b}) <= b
<1>1. \E x \in {a, b} : \A y \in {a, b} : x <= y
  <2>1. CASE a <= b
    BY <2>1
  <2>2. CASE ~(a <= b)
    BY <2>2
  <2> QED BY <2>1, <2>2
<1> QED BY <1>1 DEF Min

LEMMA PairMax ==
  ASSUME NEW a \in Int, NEW b \in Int
  PROVE  Max({a, b}) \in {a, b} /\ Max({a, b}) >= a /\ Max({a, b}) >= b
<1>1. \E x \in {a, b} : \A y \in {a, b} : x >= y
  <2>1. CASE a >= b
    BY <2>1
  <2>2. CASE ~(a >= b)
    BY <2>2
  <2> QED BY <2>1, <2>2
<1> QED BY <1>1 DEF Max

LEMMA RunMin ==
  ASSUME NEW a \in Int, NEW b \in Int, a <= b
  PROVE  Min(a..b) = a
<1>1. a \in a..b /\ \A y \in a..b : a <= y
  OBVIOUS
<1>2. \A x \in a..b : (\A y \in a..b : x <= y) => x = a
  OBVIOUS
<1> QED BY <1>1, <1>2 DEF Min

LEMMA RunMax ==
  ASSUME NEW a \in Int, NEW b \in Int, NEW c \in Int, a <= b
  PROVE  LET m == Max(a..b \cup {c}) IN m \in Int /\ b <= m
<1> DEFINE S == a..b \cup {c}
<1>1. \E x \in S : \A y \in S : x >= y
  <2>1. CASE c >= b
    <3>1. c \in S /\ \A y \in S : c >= y
      BY <2>1
    <3> QED BY <3>1
  <2>2. CASE ~(c >= b)
    <3>1. b \in S /\ \A y \in S : b >= y
      BY <2>2
    <3> QED BY <3>1
  <2> QED BY <2>1, <2>2
<1>2. Max(S) \in S /\ \A y \in S : Max(S) >= y
  BY <1>1 DEF Max
<1>3. b \in S /\ S \subseteq Int
  OBVIOUS
<1> HIDE DEF S
<1>4. Max(S) \in Int /\ b <= Max(S)
  BY <1>2, <1>3
<1> QED BY <1>4 DEF S

LEMMA HeightsAreRows == \A n \in Heights : n \in Int /\ n >= 1
  BY MirrorAssumption

LEMMA InitMInd == MInit => MInd
<1> SUFFICES ASSUME MInit PROVE MInd
  OBVIOUS
<1>1. MTypeOK /\ RefitsWait
  BY HeightsAreRows DEF MInit, MTypeOK, RefitsWait, None
<1>2. DOMAIN mirror = 0..0 + termRows - 1 /\ 0 <= 0 + termRows - 1 /\ 0 + termRows - 1 \in Int
  BY HeightsAreRows DEF MInit, Mirrored
<1> QED BY <1>1, <1>2 DEF MInd, Adjacent

\* reAnchor keeps every div it has, and the rows adjacent.
LEMMA RevealedGrows ==
  ASSUME MInd, NEW y \in Int, mirror' = Revealed(y)
  PROVE  /\ Adjacent'
         /\ \A line \in DOMAIN mirror : line \in DOMAIN mirror' /\ mirror'[line] = mirror[line]
<1>1. PICK a, b \in Int : a <= b /\ DOMAIN mirror = a..b
  BY DEF MInd, Adjacent
<1>2. Top = a
  BY <1>1, RunMin DEF Top
<1> DEFINE lo == Min({Top, y})
           hi == Max(DOMAIN mirror \cup {y + termRows - 1})
<1>3. lo \in Int /\ lo <= a
  BY <1>2, PairMin
<1>4. y + termRows - 1 \in Int
  BY HeightsAreRows DEF MInd, MTypeOK
<1>5. hi \in Int /\ b <= hi
  BY <1>1, <1>4, RunMax
<1>6. mirror' = [line \in lo..hi |-> IF line \in DOMAIN mirror THEN mirror[line] ELSE text'[line]]
  BY DEF Revealed
<1> HIDE DEF lo, hi
<1>7. DOMAIN mirror' = lo..hi /\ lo <= hi /\ DOMAIN mirror \subseteq lo..hi
  BY <1>1, <1>3, <1>5, <1>6
<1>8. \A line \in DOMAIN mirror : mirror'[line] = mirror[line]
  BY <1>6, <1>7
<1> QED BY <1>3, <1>5, <1>7, <1>8 DEF Adjacent

\* A scroll keeps what a frozen mirror holds.
LEMMA ScrolledKeeps ==
  ASSUME MInd, NEW y \in Int, ScrolledTo(y)
  PROVE  /\ viewportY' \in Int /\ Adjacent'
         /\ \A line \in DOMAIN mirror : line \in DOMAIN mirror' /\ mirror'[line] = mirror[line]
<1>1. viewportY' = y
  BY DEF ScrolledTo
<1>2. CASE frozen /\ y # viewportY
  BY <1>1, <1>2, RevealedGrows DEF ScrolledTo
<1>3. CASE ~(frozen /\ y # viewportY)
  BY <1>1, <1>3 DEF ScrolledTo, MInd, Adjacent
<1> QED BY <1>2, <1>3

\* sync makes the rows of the viewport.
LEMMA MirroredIsAdjacent ==
  ASSUME MInd, mirror' = Mirrored(viewportY, termRows, text)
  PROVE  Adjacent'
<1>1. /\ DOMAIN mirror' = viewportY..viewportY + termRows - 1
      /\ viewportY \in Int /\ viewportY + termRows - 1 \in Int
      /\ viewportY <= viewportY + termRows - 1
  BY HeightsAreRows DEF Mirrored, MInd, MTypeOK
<1> QED BY <1>1 DEF Adjacent

\* A refit gives the terminal the size of its box.
LEMMA FittedFits ==
  ASSUME MInd, Fitted, boxRows' \in Heights
  PROVE  /\ termRows' = boxRows' /\ lines' \in Int /\ viewportY' \in Int /\ Adjacent'
<1>1. boxRows' \in Int /\ boxRows' >= 1
  BY HeightsAreRows
<1>2. lines' \in Int
  BY <1>1, PairMax DEF Fitted, MInd, MTypeOK
<1>3. viewportY' \in Int
  <2>1. viewportY \in Int /\ lines' - boxRows' \in Int
    BY <1>1, <1>2 DEF MInd, MTypeOK
  <2> QED BY <2>1, PairMin DEF Fitted
<1>4. PICK a, b \in Int : a <= b /\ DOMAIN mirror = a..b
  BY DEF MInd, Adjacent
<1>5. Top = a
  BY <1>4, RunMin DEF Top
<1>6. DOMAIN mirror' = a..a + boxRows' - 1
  <2>1. mirror' = [line \in Top..Top + boxRows' - 1 |->
                     IF line \in DOMAIN mirror THEN mirror[line] ELSE None]
    BY DEF Fitted
  <2> QED BY <2>1, <1>5
<1>7. a <= a + boxRows' - 1 /\ a + boxRows' - 1 \in Int
  <2>1. \A n \in Int : n >= 1 => a <= a + n - 1 /\ a + n - 1 \in Int
    OBVIOUS
  <2> QED BY <2>1, <1>1
<1> QED BY <1>2, <1>3, <1>4, <1>6, <1>7 DEF Fitted, Adjacent

\* The line a scroll may end at.
LEMMA ClampedStep ==
  ASSUME MInd
  PROVE  Clamped(viewportY + Step) \in Int
<1>1. viewportY \in Int /\ focus \in Int /\ termRows \in Int /\ baseY \in Int
  BY HeightsAreRows DEF MInd, MTypeOK, baseY
<1>2. Step \in Int
  <2> DEFINE offset == focus - viewportY
             last == termRows - 1
  <2>1. offset \in Int /\ last \in Int /\ -termRows \in Int /\ offset - last \in Int
    BY <1>1
  <2>2. Max({offset, -termRows}) \in Int /\ Min({offset - last, termRows}) \in Int
    BY <1>1, <2>1, PairMin, PairMax
  <2> QED BY <2>1, <2>2, MirrorAssumption DEF Step
<1>3. ASSUME NEW y \in Int PROVE Clamped(y) \in Int
  <2>1. Min({baseY, y}) \in Int
    BY <1>1, PairMin
  <2>2. ASSUME NEW n \in Int PROVE Max({0, n}) \in Int
    BY <2>2, PairMax
  <2> QED BY <2>1, <2>2 DEF Clamped
<1>4. viewportY + Step \in Int
  BY <1>1, <1>2
<1> QED BY <1>3, <1>4

LEMMA NextMInd == MInd /\ [MNext]_mvars => MInd'
<1> SUFFICES ASSUME MInd, [MNext]_mvars PROVE MInd'
  OBVIOUS
<1>t. MTypeOK /\ Adjacent /\ RefitsWait
  BY DEF MInd
<1>i. termRows \in Int /\ termRows >= 1 /\ baseY \in Int
  BY <1>t, HeightsAreRows DEF MTypeOK, baseY
<1>1. CASE Pan
  <2>1. PICK y \in 0..baseY : UNCHANGED buffer /\ ScrolledTo(y)
    BY <1>1 DEF Pan
  <2>2. viewportY' \in Int /\ Adjacent'
    BY <1>i, <2>1, ScrolledKeeps
  <2>3. UNCHANGED <<termRows, boxRows, frozen, deferred, focus, lines>>
    BY <1>1, <2>1 DEF Pan, platform, buffer
  <2> QED BY <1>t, <2>2, <2>3 DEF MInd, MTypeOK, RefitsWait
<1>2. CASE Output
  <2>1. UNCHANGED <<termRows, boxRows, frozen, deferred, focus>>
    BY <1>2 DEF Output, platform
  <2>2. lines' \in Int /\ viewportY' \in Int /\ Adjacent'
    <3>1. CASE UNCHANGED <<lines, viewportY, mirror>>
      BY <1>t, <3>1 DEF MTypeOK, Adjacent
    <3>2. CASE lines' = lines + 1 /\ ScrolledTo(IF viewportY = baseY THEN viewportY + 1 ELSE viewportY)
      <4>1. (IF viewportY = baseY THEN viewportY + 1 ELSE viewportY) \in Int
        BY <1>t DEF MTypeOK
      <4>2. lines' \in Int
        BY <1>t, <3>2 DEF MTypeOK
      <4> QED BY <3>2, <4>1, <4>2, ScrolledKeeps
    <3> QED BY <1>2, <3>1, <3>2 DEF Output
  <2> QED BY <1>t, <2>1, <2>2 DEF MInd, MTypeOK, RefitsWait
<1>3. CASE SyncFrame
  <2>1. UNCHANGED <<termRows, boxRows, frozen, deferred, focus, lines, viewportY>>
    BY <1>3 DEF SyncFrame, platform, buffer
  <2>2. Adjacent'
    <3>1. CASE frozen
      BY <1>3, <1>t, <3>1 DEF SyncFrame, Adjacent
    <3>2. CASE ~frozen
      BY <1>3, <3>2, MirroredIsAdjacent DEF SyncFrame
    <3> QED BY <3>1, <3>2
  <2> QED BY <1>t, <2>1, <2>2 DEF MInd, MTypeOK, RefitsWait
<1>4. CASE BoxChanges
  <2>1. boxRows' \in Heights /\ UNCHANGED <<frozen, focus>>
    BY <1>4 DEF BoxChanges, ViewportFit, platform
  <2>2. CASE frozen
    <3>1. deferred' = TRUE /\ UNCHANGED <<termRows, viewportY, mirror, lines>>
      BY <1>4, <2>2 DEF BoxChanges, Kept, buffer
    <3> QED BY <1>t, <2>1, <2>2, <3>1 DEF MInd, MTypeOK, RefitsWait, Adjacent
  <2>3. CASE ~frozen
    <3>1. Fitted /\ deferred' = deferred
      BY <1>4, <2>3 DEF BoxChanges
    <3> QED BY <1>t, <2>1, <2>3, <3>1, FittedFits DEF MInd, MTypeOK, RefitsWait
  <2> QED BY <2>2, <2>3
<1>5. CASE Select \/ DragHandle \/ Release
  <2>1. UNCHANGED <<termRows, boxRows, frozen, deferred, lines, viewportY, mirror>>
    BY <1>5 DEF Select, DragHandle, Release, buffer
  <2>2. focus' \in Int
    BY <1>5, <1>t DEF Select, DragHandle, Release, Adjacent, None
  <2> QED BY <1>t, <2>1, <2>2 DEF MInd, MTypeOK, RefitsWait, Adjacent
<1>6. CASE Held
  <2>1. frozen' = TRUE /\ UNCHANGED <<termRows, boxRows, deferred, focus, lines>>
    BY <1>6 DEF Held, buffer
  <2>2. viewportY' \in Int /\ Adjacent'
    <3>1. CASE UNCHANGED <<viewportY, mirror>>
      BY <1>t, <3>1 DEF MTypeOK, Adjacent
    <3>2. CASE ScrolledTo(Clamped(viewportY + Step))
      BY <3>2, ClampedStep, ScrolledKeeps
    <3> QED BY <1>6, <3>1, <3>2 DEF Held
  <2> QED BY <1>t, <2>1, <2>2 DEF MInd, MTypeOK, RefitsWait
<1>7. CASE Released
  <2>1. frozen' = FALSE /\ focus' = focus
    BY <1>7 DEF Released
  <2>2. CASE frozen
    <3>1. deferred' = FALSE /\ boxRows' = boxRows /\ IF deferred THEN Fitted ELSE Kept
      BY <1>7, <2>2 DEF Released, FlushRefits
    <3>2. CASE deferred
      <4>1. boxRows' \in Heights
        BY <1>t, <3>1 DEF MTypeOK
      <4> QED BY <1>t, <2>1, <3>1, <3>2, <4>1, FittedFits DEF MInd, MTypeOK, RefitsWait
    <3>3. CASE ~deferred
      BY <1>t, <2>1, <3>1, <3>3 DEF MInd, MTypeOK, RefitsWait, Adjacent, Kept, buffer
    <3> QED BY <3>2, <3>3
  <2>3. CASE ~frozen
    <3>1. UNCHANGED <<termRows, boxRows, viewportY, mirror, deferred, lines>>
      BY <1>7, <2>3 DEF Released, buffer
    <3> QED BY <1>t, <2>1, <2>3, <3>1 DEF MInd, MTypeOK, RefitsWait, Adjacent
  <2> QED BY <2>2, <2>3
<1>8. CASE RefreshHandles
  BY <1>t, <1>8 DEF RefreshHandles, buffer, MInd, MTypeOK, RefitsWait, Adjacent
<1>9. CASE UNCHANGED mvars
  BY <1>t, <1>9 DEF mvars, buffer, platform, MInd, MTypeOK, RefitsWait, Adjacent
<1> QED BY <1>1, <1>2, <1>3, <1>4, <1>5, <1>6, <1>7, <1>8, <1>9 DEF MNext

LEMMA MirrorInvariant == MSpec => []MInd
<1> QED BY InitMInd, NextMInd, PTL DEF MSpec

\* guardRefit and flushRefits, "replays them on release": with nothing held the terminal
\* always has the size of its box, whatever was resized, selected and released before.
THEOREM NoRefitIsLost == MSpec => []RefitsReplayed
<1>1. MInd => RefitsReplayed
  BY DEF MInd, RefitsWait, RefitsReplayed
<1> QED BY <1>1, MirrorInvariant, PTL

\* sync and schedule, "catch up on everything the freeze skipped": with nothing held, the
\* mirror shows the viewport as it is, or the frame that will make it so is pending.
THEOREM MirrorCatchesUp == MSpec => []MirrorTrue
<1>1. MInit => MirrorTrue
  BY DEF MInit, MirrorTrue
<1>2. MirrorTrue /\ [MNext]_mvars => MirrorTrue'
  <2> SUFFICES ASSUME MirrorTrue, [MNext]_mvars, ~frozen', ~raf'
               PROVE  mirror' = Mirrored(viewportY', termRows', text') /\ sheetTop' = 0
    BY DEF MirrorTrue
  <2>1. CASE UNCHANGED <<frozen, raf, mirror, viewportY, termRows, text, sheetTop>>
    BY <2>1 DEF MirrorTrue, Mirrored
  <2>2. CASE Pan \/ Output
    <3>1. \A y : ~ScrolledTo(y)
      BY DEF ScrolledTo
    <3> QED BY <2>2, <3>1 DEF Pan, Output
  <2>3. CASE SyncFrame
    BY <2>3 DEF SyncFrame, Mirrored, buffer
  <2>4. CASE BoxChanges
    BY <2>4 DEF BoxChanges, Fitted
  <2>5. CASE Select \/ DragHandle \/ Release \/ RefreshHandles \/ UNCHANGED mvars
    BY <2>1, <2>5 DEF Select, DragHandle, Release, RefreshHandles, buffer, mvars
  <2>6. CASE Held
    BY <2>6 DEF Held
  <2>7. CASE Released
    <3>1. CASE frozen
      BY <2>7, <3>1 DEF Released, CatchUp
    <3>2. CASE ~frozen
      <4>1. UNCHANGED <<raf, mirror, viewportY, termRows, text, sheetTop>>
        BY <2>7, <3>2 DEF Released, buffer
      <4> QED BY <3>2, <4>1 DEF MirrorTrue, Mirrored
    <3> QED BY <3>1, <3>2
  <2> QED BY <2>2, <2>3, <2>4, <2>5, <2>6, <2>7 DEF MNext
<1> QED BY <1>1, <1>2, PTL DEF MSpec

\* reAnchor, "may only GROW, at its edges, and never be rewritten": the divs a held
\* selection may live in keep their text through output, frames, scrolls and resizes.
THEOREM HeldRowsStay == MSpec => HeldIntact
<1> DEFINE Stays == frozen /\ frozen' => \A line \in DOMAIN mirror :
                      line \in DOMAIN mirror' /\ mirror'[line] = mirror[line]
<1>1. MInd /\ [MNext]_mvars => [Stays]_mvars
  <2> SUFFICES ASSUME MInd, [MNext]_mvars, frozen, frozen'
               PROVE  \A line \in DOMAIN mirror :
                        line \in DOMAIN mirror' /\ mirror'[line] = mirror[line]
    OBVIOUS
  <2>1. CASE UNCHANGED mirror
    BY <2>1
  <2>2. ASSUME NEW y \in Int, ScrolledTo(y)
        PROVE  \A line \in DOMAIN mirror :
                 line \in DOMAIN mirror' /\ mirror'[line] = mirror[line]
    BY <2>2, ScrolledKeeps
  <2>3. CASE Pan
    <3>1. PICK y \in 0..baseY : ScrolledTo(y)
      BY <2>3 DEF Pan
    <3>2. y \in Int
      BY HeightsAreRows DEF MInd, MTypeOK, baseY
    <3> QED BY <2>2, <3>1, <3>2
  <2>4. CASE Output
    <3>1. CASE ScrolledTo(IF viewportY = baseY THEN viewportY + 1 ELSE viewportY)
      <4>1. (IF viewportY = baseY THEN viewportY + 1 ELSE viewportY) \in Int
        BY DEF MInd, MTypeOK
      <4> QED BY <2>2, <3>1, <4>1
    <3> QED BY <2>1, <2>4, <3>1 DEF Output
  <2>5. CASE Held
    BY <2>1, <2>2, <2>5, ClampedStep DEF Held
  <2>6. CASE SyncFrame \/ BoxChanges \/ Select \/ DragHandle \/ Release \/ Released \/ RefreshHandles \/ UNCHANGED mvars
    BY <2>1, <2>6 DEF SyncFrame, BoxChanges, Kept, Select, DragHandle, Release, Released,
                      RefreshHandles, mvars
  <2> QED BY <2>3, <2>4, <2>5, <2>6 DEF MNext
<1> QED BY <1>1, MirrorInvariant, PTL DEF MSpec, HeldIntact
-----------------------------------------------------------------------------
(***************************************************************************)
(* Gestures.                                                               *)
(***************************************************************************)

\* A drag that scrolls keeps the sink it was given; before that it has sent nothing.
OneSink ==
  /\ strip = "moved" => press = NoKeyHeld
  /\ drag.on /\ drag.pc = "tap" => wentTo = {}
  /\ drag.on /\ drag.pc = "scrolling" => wentTo \subseteq IF drag.forward THEN {"wheel"} ELSE {"scroll"}
  /\ wentTo \subseteq {"wheel"} \/ wentTo \subseteq {"scroll"}
  /\ drag.pc \in {"tap", "declined", "scrolling"} /\ drag.forward \in BOOLEAN
  /\ drag = [f \in DOMAIN NoDrag |-> drag[f]]

LEMMA InitOneSink == HInit => OneSink
  BY DEF HInit, OneSink, NoDrag

\* A move goes to the sink of the drag.
LEMMA MovesKeepSink ==
  ASSUME OneSink, FingerMoves
  PROVE  OneSink'
<1>1. PICK at \in {drag.at - 1, drag.at + 1} :
        LET moved == [drag EXCEPT !.at = at, !.pc = "scrolling", !.forward = Forwards]
        IN  \/ /\ Forwards /\ wentTo' = wentTo \cup {"wheel"}
               /\ drag' = [moved EXCEPT !.emitted = at]
            \/ ~Forwards /\ drag' = moved /\ wentTo' = wentTo
            \/ /\ ~Forwards /\ wentTo' \in {wentTo, wentTo \cup {"scroll"}}
               /\ drag' = [moved EXCEPT !.applied = Target(at)]
  BY DEF FingerMoves
<1>2. /\ drag.on /\ drag.pc \in {"tap", "scrolling"} /\ Forwards \in BOOLEAN
      /\ drag.pc = "scrolling" => Forwards = drag.forward
      /\ UNCHANGED <<strip, press>>
  BY DEF FingerMoves, Forwards, OneSink
<1>3. /\ drag'.on = drag.on /\ drag'.pc = "scrolling" /\ drag'.forward = Forwards
      /\ drag' = [f \in DOMAIN NoDrag |-> drag'[f]]
  BY <1>1 DEF OneSink, NoDrag
<1>4. wentTo' \in {wentTo, wentTo \cup IF Forwards THEN {"wheel"} ELSE {"scroll"}}
  BY <1>1
<1> QED BY <1>2, <1>3, <1>4 DEF OneSink

LEMMA NextOneSink ==
  ASSUME OneSink, [HNext]_hvars
  PROVE  OneSink' /\ (strip = "moved" /\ strip' = "up" => mods' = mods)
<1>1. CASE FingerMoves
  BY <1>1, MovesKeepSink DEF FingerMoves
<1>2. CASE FingerDown
  <2>1. PICK thumb \in BOOLEAN : drag' = [NoDrag EXCEPT !.on = TRUE, !.thumb = thumb]
    BY <1>2 DEF FingerDown
  <2>2. drag'.pc = "tap" /\ drag'.forward = FALSE /\ drag' = [f \in DOMAIN NoDrag |-> drag'[f]]
    BY <2>1 DEF NoDrag
  <2> QED BY <1>2, <2>2 DEF FingerDown, keys, OneSink
<1>3. CASE Declines
  <2>1. drag' = [drag EXCEPT !.pc = "declined"] /\ UNCHANGED <<mods, press, strip, wentTo>>
    BY <1>3 DEF Declines, keys
  <2>2. /\ drag'.pc = "declined" /\ drag'.forward = drag.forward
        /\ drag' = [f \in DOMAIN NoDrag |-> drag'[f]]
    BY <2>1 DEF OneSink, NoDrag
  <2> QED BY <2>1, <2>2 DEF OneSink
<1>4. CASE FingerUp
  BY <1>4 DEF FingerUp, keys, OneSink, NoDrag
<1>5. CASE SoftKey \/ TerminalSends \/ Outputs \/ AppChanges \/ UNCHANGED hvars
  <2>1. UNCHANGED <<press, strip, drag, wentTo>>
    BY <1>5 DEF SoftKey, TerminalSends, Outputs, AppChanges, keys, hvars
  <2> QED BY <2>1 DEF OneSink
<1>6. CASE KeyMoves \/ KeyUp \/ \E k \in Keys : KeyDown(k)
  <2>1. UNCHANGED <<drag, wentTo>>
    BY <1>6 DEF KeyMoves, KeyUp, KeyDown
  <2>2. strip' = "moved" => press' = NoKeyHeld
    BY <1>6 DEF KeyMoves, KeyUp, KeyDown, Travelled
  <2>3. strip = "moved" /\ strip' = "up" => mods' = mods
    BY <1>6 DEF KeyMoves, KeyUp, KeyDown, OneSink, NoKeyHeld, Modifiers
  <2> QED BY <2>1, <2>2, <2>3 DEF OneSink
<1> QED BY <1>1, <1>2, <1>3, <1>4, <1>5, <1>6 DEF HNext

\* initKeysBar and initTouchScroll: a drag across the key strip neither types nor arms, and
\* one on the terminal has one sink, whatever the application does to its screen.
THEOREM OneGestureOneThing == HSpec => DragIsOneThing
<1>1. OneSink /\ [HNext]_hvars => OneSink'
  BY NextOneSink
<1>2. OneSink /\ [HNext]_hvars
        => [/\ strip = "moved" /\ strip' = "up" => mods' = mods
            /\ wentTo' # {"wheel", "scroll"}]_hvars
  <2>1. OneSink' => wentTo' # {"wheel", "scroll"}
    BY DEF OneSink
  <2> QED BY <2>1, NextOneSink
<1> QED BY <1>1, <1>2, InitOneSink, PTL DEF HSpec, DragIsOneThing
-----------------------------------------------------------------------------
(***************************************************************************)
(* Cards.  A list has one card at most for a machine, and every write      *)
(* makes the new cards of old ones.                                        *)
(***************************************************************************)

OneEach(h) == \A i, j \in 1..Len(h) : h[i].id = h[j].id => i = j

CardInd ==
  /\ history \in Seq(Entry) /\ OneEach(history)
  /\ shownCard \in [CardTabs -> Entry \cup {NoCard}]
  /\ session \in [CardTabs -> Entry \cup {NoCard}]

\* What only the user sets is the same in both.
Alike(e, f) == e.id = f.id /\ e.name = f.name /\ e.auto = f.auto

\* The card of x in g, if it is there, is like one in h.
Descends(g, h, x) == \A k \in 1..Len(g) : g[k].id = x => \E i \in 1..Len(h) : Alike(h[i], g[k])

LEMMA SetInIs ==
  ASSUME NEW h, OneEach(h), NEW k \in 1..Len(h)
  PROVE  SetIn(h, h[k].id) = {<<h[k].name, h[k].auto>>}
<1>1. {j \in 1..Len(h) : h[j].id = h[k].id} = {k}
  BY DEF OneEach
<1> QED BY <1>1 DEF SetIn

LEMMA SameSettings ==
  ASSUME NEW g, NEW h, OneEach(g), OneEach(h), NEW x, Descends(g, h, x), Has(g, x)
  PROVE  Has(h, x) /\ SetIn(g, x) = SetIn(h, x)
<1>1. PICK k \in 1..Len(g) : g[k].id = x
  BY DEF Has
<1>2. PICK i \in 1..Len(h) : Alike(h[i], g[k])
  BY <1>1 DEF Descends
<1>3. SetIn(g, x) = {<<g[k].name, g[k].auto>>} /\ SetIn(h, x) = {<<h[i].name, h[i].auto>>}
  BY <1>1, <1>2, SetInIs DEF Alike
<1> QED BY <1>1, <1>2, <1>3 DEF Has, Alike

LEMMA PlaceIs ==
  ASSUME NEW h, NEW id, Has(h, id)
  PROVE  Place(h, id) \in 1..Len(h) /\ h[Place(h, id)].id = id
BY DEF Has, Place

LEMMA FoundIs ==
  ASSUME NEW h \in Seq(Entry), NEW id
  PROVE  /\ Found(h, id) \in Entry \cup {NoCard}
         /\ Has(h, id) => \E i \in 1..Len(h) : Found(h, id) = h[i] /\ h[i].id = id
<1>1. ASSUME Has(h, id)
      PROVE  \E i \in 1..Len(h) : Found(h, id) = h[i] /\ h[i].id = id
  BY <1>1, PlaceIs DEF Found
<1>2. \A i \in 1..Len(h) : h[i] \in Entry
  OBVIOUS
<1> QED BY <1>1, <1>2 DEF Found

LEMMA RemoveAtIs ==
  ASSUME NEW h \in Seq(Entry), NEW i \in 1..Len(h)
  PROVE  /\ RemoveAt(h, i) \in Seq(Entry) /\ Len(RemoveAt(h, i)) = Len(h) - 1
         /\ \A m \in 1..(Len(h) - 1) :
              RemoveAt(h, i)[m] = IF m < i THEN h[m] ELSE h[m + 1]
<1> DEFINE a == SubSeq(h, 1, i - 1)
           b == SubSeq(h, i + 1, Len(h))
<1>1. /\ a \in Seq(Entry) /\ Len(a) = i - 1
      /\ \A m \in 1..(i - 1) : a[m] = h[m]
  OBVIOUS
<1>2. /\ b \in Seq(Entry) /\ Len(b) = Len(h) - i
      /\ \A m \in 1..(Len(h) - i) : b[m] = h[m + i]
  OBVIOUS
<1> HIDE DEF a, b
<1>3. RemoveAt(h, i) = a \o b
  BY DEF RemoveAt, a, b
<1>4. a \o b \in Seq(Entry) /\ Len(a \o b) = Len(h) - 1
  BY <1>1, <1>2
<1>5. ASSUME NEW m \in 1..(Len(h) - 1)
      PROVE  (a \o b)[m] = IF m < i THEN h[m] ELSE h[m + 1]
  <2>1. CASE m < i
    BY <1>1, <1>2, <2>1
  <2>2. CASE ~(m < i)
    <3>1. m - (i - 1) \in 1..(Len(h) - i) /\ (m - (i - 1)) + i = m + 1
      BY <2>2
    <3>2. (a \o b)[m] = b[m - (i - 1)]
      BY <1>1, <1>2, <2>2
    <3> QED BY <1>2, <2>2, <3>1, <3>2
  <2> QED BY <2>1, <2>2
<1> QED BY <1>3, <1>4, <1>5

LEMMA WithoutIs ==
  ASSUME history \in Seq(Entry), OneEach(history), NEW id
  PROVE  /\ Without(id) \in Seq(Entry) /\ OneEach(Without(id))
         /\ \A k \in 1..Len(Without(id)) :
              /\ Without(id)[k].id # id
              /\ \E i \in 1..Len(history) : Without(id)[k] = history[i]
<1>1. CASE ~Has(history, id)
  BY <1>1 DEF Without, Has
<1>2. CASE Has(history, id)
  <2> DEFINE i == Place(history, id)
             r == RemoveAt(history, i)
             from(m) == IF m < i THEN m ELSE m + 1
  <2>1. i \in 1..Len(history) /\ history[i].id = id /\ Without(id) = r
    BY <1>2, PlaceIs DEF Without
  <2> HIDE DEF i
  <2>2. /\ r \in Seq(Entry) /\ Len(r) = Len(history) - 1
        /\ \A m \in 1..(Len(history) - 1) : r[m] = history[from(m)]
    BY <2>1, RemoveAtIs
  <2> HIDE DEF r
  <2>3. /\ \A m \in 1..(Len(history) - 1) : from(m) \in 1..Len(history) /\ from(m) # i
        /\ \A m, n \in 1..(Len(history) - 1) : from(m) = from(n) => m = n
    BY <2>1
  <2> HIDE DEF from
  <2>4. OneEach(r)
    BY <2>2, <2>3 DEF OneEach
  <2>5. ASSUME NEW m \in 1..Len(r)
        PROVE  r[m].id # id /\ \E k \in 1..Len(history) : r[m] = history[k]
    <3>1. m \in 1..(Len(history) - 1)
      BY <2>2
    <3>2. from(m) \in 1..Len(history) /\ from(m) # i /\ r[m] = history[from(m)]
      BY <2>2, <2>3, <3>1
    <3>3. history[from(m)].id # history[i].id
      BY <2>1, <3>2 DEF OneEach
    <3> QED BY <2>1, <3>2, <3>3
  <2> QED BY <2>1, <2>2, <2>4, <2>5
<1> QED BY <1>1, <1>2

Anyone == [id : Ids \cup {""}, name : Names, command : Commands, tools : BOOLEAN, auto : BOOLEAN]

\* The card a connect to id makes of s.
Bumped(s, id, command) == [s EXCEPT !.id = id, !.command = command]

LEMMA NewCard ==
  ASSUME NEW s \in Anyone, NEW id \in Ids, NEW command \in Commands
  PROVE  LET e == Bumped(s, id, command)
         IN  e \in Entry /\ e.id = id /\ e.name = s.name /\ e.auto = s.auto
BY DEF Bumped, Anyone, Entry

\* recordConnection: the machine's card in front, as the user has set it if it was there;
\* the others as they were, but for what the cap cuts off.
LEMMA RecordedIs ==
  ASSUME history \in Seq(Entry), OneEach(history), NEW id \in Ids, NEW command \in Commands
  PROVE  /\ Recorded(id, command) \in Seq(Entry) /\ OneEach(Recorded(id, command))
         /\ \A x : x # id \/ Has(history, id) => Descends(Recorded(id, command), history, x)
<1> DEFINE e == [Stored(id) EXCEPT !.id = id, !.command = command]
           w == Without(id)
           g == <<e>> \o w
<1>1. /\ Stored(id) \in Entry \cup {NoCard}
      /\ Has(history, id) => \E i \in 1..Len(history) : Stored(id) = history[i] /\ history[i].id = id
  BY FoundIs DEF Stored
<1>2. e \in Entry /\ e.id = id /\ e.name = Stored(id).name /\ e.auto = Stored(id).auto
  <2>1. NoCard \in Anyone /\ Entry \subseteq Anyone
    BY DEF NoCard, Anyone, Entry, Names, Commands
  <2>2. Stored(id) \in Anyone
    BY <1>1, <2>1
  <2>3. e = Bumped(Stored(id), id, command)
    BY DEF Bumped
  <2> HIDE DEF e
  <2> QED BY <2>2, <2>3, NewCard
<1>3. Has(history, id) => \E i \in 1..Len(history) : Alike(history[i], e)
  BY <1>1, <1>2 DEF Alike
<1> HIDE DEF e
<1>4. /\ w \in Seq(Entry) /\ OneEach(w)
      /\ \A k \in 1..Len(w) : w[k].id # id /\ \E i \in 1..Len(history) : w[k] = history[i]
  BY WithoutIs
<1> HIDE DEF w
<1>5. /\ g \in Seq(Entry) /\ Len(g) = Len(w) + 1 /\ g[1] = e
      /\ \A k \in 2..Len(g) : k - 1 \in 1..Len(w) /\ g[k] = w[k - 1]
  BY <1>2, <1>4
<1> HIDE DEF g
<1>t. ASSUME NEW k \in 1..Len(g), k # 1
      PROVE  k \in 2..Len(g) /\ k - 1 \in 1..Len(w) /\ g[k] = w[k - 1] /\ g[k].id # id
  <2>1. k \in 2..Len(g)
    BY <1>5, <1>t
  <2>2. k - 1 \in 1..Len(w) /\ g[k] = w[k - 1]
    BY <1>5, <2>1
  <2> QED BY <1>4, <2>1, <2>2
<1>6. OneEach(g)
  <2> SUFFICES ASSUME NEW i \in 1..Len(g), NEW j \in 1..Len(g), g[i].id = g[j].id
               PROVE  i = j
    BY DEF OneEach
  <2>1. CASE i = 1 \/ j = 1
    BY <1>2, <1>5, <1>t, <2>1
  <2>2. CASE i # 1 /\ j # 1
    <3>1. i - 1 \in 1..Len(w) /\ j - 1 \in 1..Len(w) /\ w[i - 1].id = w[j - 1].id
      BY <1>t, <2>2
    <3>2. i - 1 = j - 1
      BY <1>4, <3>1 DEF OneEach
    <3> QED BY <3>2
  <2> QED BY <2>1, <2>2
<1>7. ASSUME NEW k \in 1..Len(g), g[k].id # id \/ Has(history, id)
      PROVE  \E i \in 1..Len(history) : Alike(history[i], g[k])
  <2>1. CASE k = 1
    BY <1>2, <1>3, <1>5, <1>7, <2>1
  <2>2. CASE k # 1
    BY <1>4, <1>t, <2>2 DEF Alike
  <2> QED BY <2>1, <2>2
<1>8. PICK n \in 0..Len(g) : SavedHistory(g) = SubSeq(g, 1, n)
  <2>1. Len(g) \in Nat /\ HISTORY_CAP \in Nat
    BY <1>5, CardsAssumption
  <2> QED BY <2>1 DEF SavedHistory
<1>9. /\ SubSeq(g, 1, n) \in Seq(Entry) /\ Len(SubSeq(g, 1, n)) = n
      /\ \A k \in 1..n : k \in 1..Len(g) /\ SubSeq(g, 1, n)[k] = g[k]
  BY <1>5
<1>10. Recorded(id, command) = SubSeq(g, 1, n)
  BY <1>8 DEF Recorded, g, e, w
<1>11. OneEach(SubSeq(g, 1, n))
  BY <1>6, <1>9 DEF OneEach
<1>12. \A x : x # id \/ Has(history, id) => Descends(SubSeq(g, 1, n), history, x)
  BY <1>7, <1>9 DEF Descends
<1> QED BY <1>9, <1>10, <1>11, <1>12

\* updateConnection: the machine's card in its place, and no other.
LEMMA UpdatedIs ==
  ASSUME history \in Seq(Entry), OneEach(history), NEW id, NEW e,
         Has(history, id) => e \in Entry /\ e.id = id
  PROVE  /\ Updated(id, e) \in Seq(Entry) /\ OneEach(Updated(id, e))
         /\ \A x : x # id \/ Alike(Stored(id), e) => Descends(Updated(id, e), history, x)
<1> DEFINE u == Updated(id, e)
<1>1. /\ Len(u) = Len(history)
      /\ \A i \in 1..Len(history) : u[i] = IF history[i].id = id THEN e ELSE history[i]
      /\ DOMAIN u = 1..Len(history)
  BY DEF Updated
<1>2. \A i \in 1..Len(history) : history[i].id = id => Has(history, id)
  BY DEF Has
<1>3. u \in Seq(Entry)
  BY <1>2 DEF Updated
<1>4. \A i \in 1..Len(history) : u[i].id = history[i].id
  BY <1>1, <1>2
<1>5. ASSUME NEW i \in 1..Len(history), history[i].id = id
      PROVE  Stored(id) = history[i]
  BY <1>2, <1>5, PlaceIs DEF Stored, Found, OneEach
<1> HIDE DEF u
<1>6. OneEach(u)
  BY <1>1, <1>4 DEF OneEach
<1>7. ASSUME NEW x, x # id \/ Alike(Stored(id), e), NEW k \in 1..Len(u), u[k].id = x
      PROVE  Alike(history[k], u[k])
  BY <1>1, <1>4, <1>5, <1>7 DEF Alike
<1>8. \A x : x # id \/ Alike(Stored(id), e) => Descends(u, history, x)
  BY <1>1, <1>7 DEF Descends
<1> QED BY <1>3, <1>6, <1>8 DEF u

\* A card appears by a remembered connect alone, and is set on its own screen alone.
CardRight(x) ==
  /\ Has(history', x) /\ ~Has(history, x)
       => remember /\ \E t \in CardTabs : session'[t].id = x /\ x \in probing'
  /\ Has(history', x) /\ Has(history, x) /\ SetIn(history', x) # SetIn(history, x)
       => \E t \in CardTabs : shownCard[t].id = x /\ (Rename(t) \/ SetAuto(t))

LEMMA Undisturbed ==
  ASSUME OneEach(history), OneEach(history'), NEW x, Descends(history', history, x)
  PROVE  CardRight(x)
BY SameSettings DEF CardRight

LEMMA StoredIs ==
  ASSUME history \in Seq(Entry), NEW id, Has(history, id)
  PROVE  Stored(id) \in Entry /\ Stored(id).id = id
BY FoundIs DEF Stored

LEMMA ConnectedKeeps ==
  ASSUME CardInd, NEW t \in CardTabs, NEW id \in Ids, NEW command \in Commands,
         Connected(t, id, command)
  PROVE  CardInd' /\ \A x : CardRight(x)
<1>1. NoCard \in Anyone
  BY DEF NoCard, Anyone, Names, Commands
<1>2. [NoCard EXCEPT !.id = id, !.command = command] \in Entry
      /\ [NoCard EXCEPT !.id = id, !.command = command].id = id
  BY <1>1, NewCard DEF Bumped
<1>3. /\ session' \in [CardTabs -> Entry \cup {NoCard}] /\ session'[t].id = id
      /\ shownCard' \in [CardTabs -> Entry \cup {NoCard}] /\ id \in probing'
  BY <1>2 DEF CardInd, Connected
<1>4. CASE ~remember
  <2>1. history' = history
    BY <1>4 DEF Connected
  <2>2. \A x : Descends(history', history, x)
    BY <2>1 DEF Descends, Alike
  <2> QED BY <1>3, <2>1, <2>2, Undisturbed DEF CardInd
<1>5. CASE remember
  <2>1. history' = Recorded(id, command)
    BY <1>5 DEF Connected
  <2>2. /\ history' \in Seq(Entry) /\ OneEach(history')
        /\ \A x : x # id \/ Has(history, id) => Descends(history', history, x)
    BY <2>1, RecordedIs DEF CardInd
  <2>3. ASSUME NEW x PROVE CardRight(x)
    <3>1. CASE x # id \/ Has(history, id)
      BY <2>2, <3>1, Undisturbed DEF CardInd
    <3>2. CASE x = id /\ ~Has(history, id)
      BY <1>3, <1>5, <3>2 DEF CardRight
    <3> QED BY <3>1, <3>2
  <2> QED BY <1>3, <2>2, <2>3 DEF CardInd
<1> QED BY <1>4, <1>5

\* A write to one card: what the user sets stays, or the user sets it on the card's screen.
LEMMA UpdatedKeeps ==
  ASSUME CardInd, NEW id, NEW e, history' = Updated(id, e),
         Has(history, id) => e \in Entry /\ e.id = id,
         shownCard' \in [CardTabs -> Entry \cup {NoCard}], UNCHANGED session,
         Has(history, id) => \/ Alike(Stored(id), e)
                             \/ \E t \in CardTabs : shownCard[t].id = id /\ (Rename(t) \/ SetAuto(t))
  PROVE  CardInd' /\ \A x : CardRight(x)
<1>1. /\ history' \in Seq(Entry) /\ OneEach(history')
      /\ \A x : x # id \/ Alike(Stored(id), e) => Descends(history', history, x)
  BY UpdatedIs DEF CardInd
<1>2. Has(history, id) \/ ~Has(history', id)
  BY DEF Updated, Has
<1>3. ASSUME NEW x PROVE CardRight(x)
  <2>1. CASE x # id \/ Alike(Stored(id), e)
    BY <1>1, <2>1, Undisturbed DEF CardInd
  <2>2. CASE x = id /\ ~Alike(Stored(id), e)
    BY <1>2, <2>2 DEF CardRight
  <2> QED BY <2>1, <2>2
<1> QED BY <1>1, <1>3 DEF CardInd

\* A write that makes nothing and sets nothing.
LEMMA DescendedKeeps ==
  ASSUME CardInd, history' \in Seq(Entry), OneEach(history'),
         \A x : Descends(history', history, x),
         shownCard' \in [CardTabs -> Entry \cup {NoCard}], UNCHANGED session
  PROVE  CardInd' /\ \A x : CardRight(x)
BY Undisturbed DEF CardInd

LEMMA ShownIs ==
  ASSUME CardInd, NEW t \in CardTabs
  PROVE  /\ shownCard[t] # NoCard => shownCard[t] \in Entry
         /\ session[t] # NoCard => session[t] \in Entry
BY DEF CardInd

LEMMA InitCardInd == CardInit => CardInd
  BY DEF CardInit, CardInd, OneEach

LEMMA NextCardInd == CardInd /\ [CardNext]_cardvars => CardInd' /\ \A x : CardRight(x)
<1> SUFFICES ASSUME CardInd, [CardNext]_cardvars PROVE CardInd' /\ \A x : CardRight(x)
  OBVIOUS
<1>s. \A e : Alike(e, e)
  BY DEF Alike
<1>0. CASE UNCHANGED cardvars \/ ToggleRemember
  <2>1. UNCHANGED <<history, shownCard, session>>
    BY <1>0 DEF cardvars, ToggleRemember
  <2>2. \A x : Descends(history', history, x)
    BY <1>s, <2>1 DEF Descends
  <2>3. CardInd'
    BY <2>1 DEF CardInd
  <2> QED BY <2>2, <2>3, Undisturbed DEF CardInd
<1>1. CASE ForgetAll
  <2>1. history' = <<>> /\ UNCHANGED <<shownCard, session>>
    BY <1>1 DEF ForgetAll
  <2>2. Len(history') = 0
    BY <2>1
  <2>3. history' \in Seq(Entry) /\ OneEach(history') /\ \A x : Descends(history', history, x)
    BY <2>1, <2>2 DEF OneEach, Descends
  <2> QED BY <2>1, <2>3, DescendedKeeps DEF CardInd
<1>2. ASSUME NEW id \in Ids, Detected(id) PROVE CardInd' /\ \A x : CardRight(x)
  <2> DEFINE e == [Stored(id) EXCEPT !.tools = TRUE]
  <2>1. UNCHANGED <<shownCard, session>> /\ shownCard' \in [CardTabs -> Entry \cup {NoCard}]
    BY <1>2 DEF Detected, CardInd
  <2>2. Has(history, id) => e \in Entry /\ e.id = id /\ Alike(Stored(id), e)
    BY StoredIs DEF CardInd, Entry, Alike
  <2>3. CASE history' = history
    BY <1>s, <2>1, <2>3, DescendedKeeps DEF Descends, CardInd
  <2>4. CASE history' = Updated(id, e)
    <3> HIDE DEF e
    <3> QED BY <2>1, <2>2, <2>4, UpdatedKeeps
  <2> QED BY <1>2, <2>3, <2>4 DEF Detected, Probed
<1>3. ASSUME NEW t \in CardTabs,
             ConnectSheet(t) \/ ConnectCard(t) \/ ConnectPlain(t) \/ Reconnect(t)
      PROVE  CardInd' /\ \A x : CardRight(x)
  <2>1. "" \in Commands /\ NoCard.command = ""
    BY DEF Commands, NoCard
  <2>2. \E id \in Ids, command \in Commands : Connected(t, id, command)
    <3>1. CASE ConnectSheet(t)
      BY <3>1 DEF ConnectSheet
    <3>2. CASE ConnectCard(t) \/ Reconnect(t)
      BY <3>2, ShownIs DEF ConnectCard, Reconnect, Entry
    <3>3. CASE ConnectPlain(t)
      BY <2>1, <3>3, ShownIs DEF ConnectPlain, Entry
    <3> QED BY <1>3, <3>1, <3>2, <3>3
  <2> QED BY <2>2, ConnectedKeeps
<1>4. ASSUME NEW t \in CardTabs, ClearCommand(t) PROVE CardInd' /\ \A x : CardRight(x)
  <2> DEFINE id == session[t].id
             clear(f) == [f EXCEPT !.command = ""]
  <2>1. UNCHANGED <<shownCard, session>> /\ shownCard' \in [CardTabs -> Entry \cup {NoCard}]
    BY <1>4 DEF ClearCommand, CardInd
  <2>2. history' = [i \in 1..Len(history) |-> IF history[i].id = id THEN clear(history[i])
                                                                    ELSE history[i]]
    BY <1>4 DEF ClearCommand
  <2>3. \A f \in Entry : clear(f) \in Entry /\ Alike(f, clear(f))
    BY DEF Entry, Alike, Commands
  <2> HIDE DEF clear, id
  <2>4. \A i \in 1..Len(history) : history[i] \in Entry
    BY DEF CardInd
  <2>5. history' \in Seq(Entry) /\ Len(history') = Len(history)
    BY <2>2, <2>3, <2>4 DEF CardInd
  <2>6. \A i \in 1..Len(history) : Alike(history[i], history'[i])
    BY <1>s, <2>2, <2>3, <2>4
  <2>7. OneEach(history') /\ \A x : Descends(history', history, x)
    BY <2>5, <2>6 DEF OneEach, Descends, Alike, CardInd
  <2> QED BY <2>1, <2>5, <2>7, DescendedKeeps
<1>5. ASSUME NEW t \in CardTabs, ShowCard(t) PROVE CardInd' /\ \A x : CardRight(x)
  <2>1. UNCHANGED <<history, session>> /\ shownCard' \in [CardTabs -> Entry \cup {NoCard}]
    BY <1>5 DEF ShowCard, CardInd
  <2>2. \A x : Descends(history', history, x)
    BY <1>s, <2>1 DEF Descends
  <2> QED BY <2>1, <2>2, DescendedKeeps DEF CardInd
<1>6. ASSUME NEW t \in CardTabs, Rename(t) PROVE CardInd' /\ \A x : CardRight(x)
  <2> DEFINE id == shownCard[t].id
  <2>1. PICK n \in Names : history' = Updated(id, [Stored(id) EXCEPT !.name = n])
    BY <1>6 DEF Rename
  <2> DEFINE e == [Stored(id) EXCEPT !.name = n]
  <2>2. Has(history, id) => e \in Entry /\ e.id = id
    BY StoredIs DEF CardInd, Entry
  <2> HIDE DEF e
  <2>3. history' \in Seq(Entry)
    BY <2>1, <2>2, UpdatedIs DEF CardInd, e
  <2>4. Found(history', id) \in Entry \cup {NoCard}
    BY <2>3, FoundIs
  <2>5. UNCHANGED session /\ shownCard' \in [CardTabs -> Entry \cup {NoCard}]
    BY <1>6, <2>4 DEF Rename, CardInd
  <2> QED BY <1>6, <2>1, <2>2, <2>5, UpdatedKeeps DEF e
<1>7. ASSUME NEW t \in CardTabs, SetCommand(t) PROVE CardInd' /\ \A x : CardRight(x)
  <2> DEFINE id == shownCard[t].id
  <2>1. PICK c \in Commands : history' = Updated(id, [Stored(id) EXCEPT !.command = c])
    BY <1>7 DEF SetCommand
  <2> DEFINE e == [Stored(id) EXCEPT !.command = c]
  <2>2. Has(history, id) => e \in Entry /\ e.id = id /\ Alike(Stored(id), e)
    BY StoredIs DEF CardInd, Entry, Alike
  <2> HIDE DEF e
  <2>3. UNCHANGED session /\ shownCard' \in [CardTabs -> Entry \cup {NoCard}]
    BY <1>7 DEF SetCommand, CardInd
  <2> QED BY <2>1, <2>2, <2>3, UpdatedKeeps DEF e
<1>8. ASSUME NEW t \in CardTabs, SetAuto(t) PROVE CardInd' /\ \A x : CardRight(x)
  <2> DEFINE id == shownCard[t].id
  <2>1. PICK on \in BOOLEAN : history' = Updated(id, [Stored(id) EXCEPT !.auto = on])
    BY <1>8 DEF SetAuto
  <2> DEFINE e == [Stored(id) EXCEPT !.auto = on]
  <2>2. Has(history, id) => e \in Entry /\ e.id = id
    BY StoredIs DEF CardInd, Entry
  <2> HIDE DEF e
  <2>3. UNCHANGED session /\ shownCard' \in [CardTabs -> Entry \cup {NoCard}]
    BY <1>8 DEF SetAuto, CardInd
  <2> QED BY <1>8, <2>1, <2>2, <2>3, UpdatedKeeps DEF e
<1>9. ASSUME NEW t \in CardTabs, ForgetCard(t) PROVE CardInd' /\ \A x : CardRight(x)
  <2>1. history' = Without(shownCard[t].id) /\ UNCHANGED session
        /\ shownCard' \in [CardTabs -> Entry \cup {NoCard}]
    BY <1>9 DEF ForgetCard, CardInd
  <2>2. history' \in Seq(Entry) /\ OneEach(history')
        /\ \A k \in 1..Len(history') : \E i \in 1..Len(history) : history'[k] = history[i]
    BY <2>1, WithoutIs DEF CardInd
  <2>3. \A x : Descends(history', history, x)
    BY <1>s, <2>2 DEF Descends
  <2> QED BY <2>1, <2>2, <2>3, DescendedKeeps
<1> QED BY <1>0, <1>1, <1>2, <1>3, <1>4, <1>5, <1>6, <1>7, <1>8, <1>9 DEF CardNext

\* boot.mjs, "neither must resurrect a connection the user chose not to remember" and
\* "reconnecting must never cost a card its name": for any number of machines and tabs,
\* every cap of the list, and answers that come however late.
THEOREM OnlyTheUserSetsCards == CardSpec => CardsAreTheUsers
<1>1. CardInd /\ [CardNext]_cardvars => [\A id \in Ids : CardRight(id)]_cardvars
  BY NextCardInd
<1>2. [\A id \in Ids : CardRight(id)]_cardvars =>
      [\A id \in Ids :
         /\ Has(history', id) /\ ~Has(history, id)
              => remember /\ \E t \in CardTabs : session'[t].id = id /\ id \in probing'
         /\ Has(history', id) /\ Has(history, id) /\ SetIn(history', id) # SetIn(history, id)
              => \E t \in CardTabs : shownCard[t].id = id /\ (Rename(t) \/ SetAuto(t))]_cardvars
  BY DEF CardRight
<1> QED BY <1>1, <1>2, InitCardInd, NextCardInd, PTL DEF CardSpec, CardsAreTheUsers
=============================================================================
