-------------------------------- MODULE Keys --------------------------------
(***************************************************************************)
(* What the page keeps of its keys in IndexedDB, and several tabs of the   *)
(* site using it at once (site/identity-store.ts, site/passkey-store.ts,   *)
(* and recover of wosh-client/src/passkey.rs).  Key pairs and credentials  *)
(* are numbered as they are made; a passkey's public key has the number of *)
(* its credential.  A transaction is one step, what is awaited between two *)
(* is not.                                                                 *)
(***************************************************************************)
EXTENDS Integers

CONSTANTS Tabs,       \* the tabs of this browser that have the site open
          MaxKeys,    \* bound: key pairs minted
          MaxCreds    \* bound: credentials in the authenticator

ASSUME KeysAssumption == MaxKeys \in Nat /\ MaxCreds \in Nat

VARIABLES stored,     \* the browser identity in IndexedDB, or NoKeyPair
          pair,       \* per tab: pairPromise, and the pair it settles to
          mints,      \* key pairs minted so far
          record,     \* the passkey record in IndexedDB, or NoRecord
          ceremony,   \* per tab: the call of passkey-store in flight
          creds       \* external: credentials made so far

kvars == <<stored, pair, mints, record, ceremony, creds>>
passkey == <<record, ceremony, creds>>
identity == <<stored, pair, mints>>

NoKeyPair == 0
NoId == 0
NoRecord == [key |-> 0, cred |-> NoId, hinted |-> FALSE]
NoPair == [pc |-> "none", key |-> NoKeyPair]
NoCeremony == [pc |-> "idle", rec |-> NoRecord]

\* A record of an earlier version may lack the credential's id (usable accepts it).
KInit ==
  /\ stored = NoKeyPair /\ pair = [t \in Tabs |-> NoPair] /\ mints = 0
  /\ record = [key |-> 1, cred |-> NoId, hinted |-> FALSE]
  /\ ceremony = [t \in Tabs |-> NoCeremony] /\ creds = 1
-----------------------------------------------------------------------------
(* identity-store.ts *)

\* loadOrMint, its first transaction: the stored pair, or a candidate is minted.
Load(t) ==
  /\ pair[t].pc = "none"
  /\ IF stored # NoKeyPair
     THEN /\ pair' = [pair EXCEPT ![t] = [pc |-> "have", key |-> stored]]
          /\ UNCHANGED mints
     ELSE /\ mints < MaxKeys
          /\ mints' = mints + 1
          /\ pair' = [pair EXCEPT ![t] = [pc |-> "minting", key |-> mints + 1]]
  /\ UNCHANGED <<stored, passkey>>

\* Mutant of Winner: the candidate is put whatever another tab has put meanwhile.
WinnerBlind(candidate) == candidate

\* The second look, in the transaction that writes.
Winner(candidate) == IF stored # NoKeyPair THEN stored ELSE candidate

\* loadOrMint, its second transaction: whoever commits first is everybody's identity.
SettleOwnership(t) ==
  /\ pair[t].pc = "minting"
  /\ stored' = Winner(pair[t].key)
  /\ pair' = [pair EXCEPT ![t] = [pc |-> "have", key |-> Winner(pair[t].key)]]
  /\ UNCHANGED <<mints, passkey>>

\* IndexedDB is refused: a pair of this page load alone (identityPair).
Ephemeral(t) ==
  /\ pair[t].pc \in {"none", "minting"} /\ mints < MaxKeys
  /\ mints' = mints + 1
  /\ pair' = [pair EXCEPT ![t] = [pc |-> "ephemeral", key |-> mints + 1]]
  /\ UNCHANGED <<stored, passkey>>

\* The tab loads the page again: the memory goes, the stores stay.
ReloadTab(t) ==
  /\ pair[t].pc # "none" \/ ceremony[t].pc # "idle"
  /\ pair' = [pair EXCEPT ![t] = NoPair]
  /\ ceremony' = [ceremony EXCEPT ![t] = NoCeremony]
  /\ UNCHANGED <<stored, mints, record, creds>>
-----------------------------------------------------------------------------
(* passkey-store.ts *)

InCeremony(t, pc, rec) == ceremony' = [ceremony EXCEPT ![t] = [pc |-> pc, rec |-> rec]]

\* enroll, up to saveRecord: a new credential, and what registration tells of it.
Enroll(t) ==
  /\ ceremony[t].pc = "idle" /\ creds < MaxCreds
  /\ creds' = creds + 1
  /\ \E hinted \in BOOLEAN :
       InCeremony(t, "saving", [key |-> creds + 1, cred |-> creds + 1, hinted |-> hinted])
  /\ UNCHANGED <<record, identity>>

\* Mutant of Verifies: any passkey of this site will do.
VerifiesAny(key, cred) == TRUE

\* verifyAssertion: the signature of the passkey that was picked, under the claimed key.
Verifies(key, cred) == key = cred

\* adopt, up to saveRecord: a line names the key, the user picks a passkey.
Adopt(t) ==
  /\ ceremony[t].pc = "idle"
  /\ \E claimed, picked \in 1..creds : \E hinted \in BOOLEAN :
       /\ Verifies(claimed, picked)
       /\ InCeremony(t, "saving", [key |-> claimed, cred |-> picked, hinted |-> hinted])
  /\ UNCHANGED <<record, creds, identity>>

\* recover, up to saveRecord (remember): the same passkey twice gives its key.
Recover(t) ==
  /\ ceremony[t].pc = "idle"
  /\ \E first, second \in 1..creds :
       /\ first = second
       /\ InCeremony(t, "saving", [key |-> first, cred |-> second, hinted |-> FALSE])
  /\ UNCHANGED <<record, creds, identity>>

\* assert: the record is loaded, then the gate and the authenticator are awaited.
AssertPasskey(t) ==
  /\ ceremony[t].pc = "idle" /\ record # NoRecord
  /\ InCeremony(t, "asserting", record)
  /\ UNCHANGED <<record, creds, identity>>

\* The record as it was loaded, with what the ceremony taught.
Learned(rec, picked, hinted) ==
  [rec EXCEPT !.cred = IF @ = NoId THEN picked ELSE @, !.hinted = @ \/ hinted]

\* assert, after the ceremony: a wrong passkey fails it, a right one may teach something.
Asserted(t) ==
  /\ ceremony[t].pc = "asserting"
  /\ LET rec == ceremony[t].rec IN
     \E picked \in IF rec.cred = NoId THEN 1..creds ELSE {rec.cred} : \E hinted \in BOOLEAN :
       IF Verifies(rec.key, picked) /\ Learned(rec, picked, hinted) # rec
       THEN InCeremony(t, "saving", Learned(rec, picked, hinted))
       ELSE InCeremony(t, "idle", NoRecord)
  /\ UNCHANGED <<record, creds, identity>>

\* saveRecord's transaction: the whole record.
SaveRecord(t) ==
  /\ ceremony[t].pc = "saving"
  /\ record' = ceremony[t].rec
  /\ InCeremony(t, "idle", NoRecord)
  /\ UNCHANGED <<creds, identity>>

\* clearRecord's transaction.
Cleared == record' = NoRecord

\* forget.
Forget(t) ==
  /\ ceremony[t].pc = "idle" /\ record # NoRecord
  /\ Cleared
  /\ UNCHANGED <<ceremony, creds, identity>>

KNext ==
  \E t \in Tabs :
    \/ Load(t) \/ SettleOwnership(t) \/ Ephemeral(t) \/ ReloadTab(t)
    \/ Enroll(t) \/ Adopt(t) \/ Recover(t) \/ AssertPasskey(t) \/ Asserted(t)
    \/ SaveRecord(t) \/ Forget(t)

KSpec == KInit /\ [][KNext]_kvars
-----------------------------------------------------------------------------
\* "when two tabs race, both observe the same winner" (identity-store.ts loadOrMint):
\* two tabs that have a persistent identity have the same one, the stored one.
OneIdentity == \A t \in Tabs : pair[t].pc = "have" => pair[t].key = stored

\* "a different passkey was picked" never gets stored (passkey-store.ts adopt, assert):
\* the ceremony a record allows is answered by the credential that holds its key,
\* whatever tabs enrol, adopt, recover and forget while another tab's ceremony runs.
RecordMatches == record # NoRecord => record.cred \in {NoId, record.key}
-----------------------------------------------------------------------------
\* The inductive invariant of the proofs.
Rec == [key : Nat, cred : Nat, hinted : BOOLEAN]

KTypeOK ==
  /\ stored \in Nat /\ mints \in Nat /\ creds \in Nat
  /\ pair \in [Tabs -> [pc : {"none", "minting", "have", "ephemeral"}, key : Nat]]
  /\ record \in Rec
  /\ ceremony \in [Tabs -> [pc : {"idle", "asserting", "saving"}, rec : Rec]]

\* A candidate is a key pair, and so is what a tab has.
KeysMinted == \A t \in Tabs :
  /\ pair[t].pc = "minting" => pair[t].key # NoKeyPair
  /\ pair[t].pc = "have" => pair[t].key # NoKeyPair

\* What is on its way into the store matches as well as what is in it.
CeremoniesMatch == \A t \in Tabs : ceremony[t].rec.cred \in {NoId, ceremony[t].rec.key}

KInd == KTypeOK /\ KeysMinted /\ CeremoniesMatch /\ OneIdentity /\ RecordMatches
=============================================================================
