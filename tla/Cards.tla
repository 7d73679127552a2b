-------------------------------- MODULE Cards --------------------------------
(***************************************************************************)
(* The connection cards of the home screen (site/boot.mjs, the connection  *)
(* history): one stored list, written by every tab of the site -- by what  *)
(* connects, by the card's own screen, and by answers that come in long    *)
(* after a connect.  A write reads, changes and stores the list in one     *)
(* step; what a tab shows of it may be old.                                *)
(***************************************************************************)
EXTENDS Integers, Sequences, SequencesExt

CONSTANTS Ids,          \* who is behind a card: a listener and a user on it
          CardTabs,     \* the tabs of this browser that have the site open
          HISTORY_CAP

ASSUME CardsAssumption == HISTORY_CAP \in Nat \ {0}

VARIABLES history,    \* the stored list, the latest connection first
          remember,   \* successful connects are recorded
          shownCard,  \* per tab: the card it shows, as it was stored then; or NoCard
          session,    \* per tab: the card its session came of, as dialed; or NoCard
          probing   \* probes for session managers that are under way

cardvars == <<history, remember, shownCard, session, probing>>

Commands == {"", "dtach"}     \* "" is a plain shell
Names == {"", "mine"}
Entry == [id : Ids, name : Names, command : Commands, tools : BOOLEAN, auto : BOOLEAN]
NoCard == [id |-> "", name |-> "", command |-> "", tools |-> FALSE, auto |-> FALSE]

Has(h, id) == \E i \in 1..Len(h) : h[i].id = id
\* Where the machine's entry stands: recordConnection leaves one at most.
Place(h, id) == CHOOSE i \in 1..Len(h) : h[i].id = id
Found(h, id) == IF Has(h, id) THEN h[Place(h, id)] ELSE NoCard
Stored(id) == Found(history, id)
Without(id) == IF Has(history, id) THEN RemoveAt(history, Place(history, id)) ELSE history

\* What only the user sets: the nickname, and to reconnect when the page opens.
SetIn(h, id) == {<<h[i].name, h[i].auto>> : i \in {j \in 1..Len(h) : h[j].id = id}}

\* saveHistory.
SavedHistory(h) == SubSeq(h, 1, IF Len(h) < HISTORY_CAP THEN Len(h) ELSE HISTORY_CAP)

CardInit ==
  /\ history = <<>> /\ remember = TRUE
  /\ shownCard = [t \in CardTabs |-> NoCard] /\ session = [t \in CardTabs |-> NoCard]
  /\ probing = {}
-----------------------------------------------------------------------------
\* recordConnection: bumped to the front; the name, the tools and autoResume are the old
\* entry's, the command is the dial's.
Recorded(id, command) ==
  SavedHistory(<<[Stored(id) EXCEPT !.id = id, !.command = command]>> \o Without(id))

\* A connect got through (doConnect): recorded if that is wanted, and the host is asked
\* which session managers it has.
Connected(t, id, command) ==
  /\ history' = IF remember THEN Recorded(id, command) ELSE history
  /\ session' = [session EXCEPT ![t] = [NoCard EXCEPT !.id = id, !.command = command]]
  /\ shownCard' = [shownCard EXCEPT ![t] = NoCard]
  /\ probing' = probing \cup {id}
  /\ UNCHANGED remember

\* By the connect sheet or a link, to any machine with any command.
ConnectSheet(t) == \E id \in Ids, command \in Commands : Connected(t, id, command)

\* By a card, with the command it showed.
ConnectCard(t) == shownCard[t] # NoCard /\ Connected(t, shownCard[t].id, shownCard[t].command)

\* "connect with a plain shell", on the card's screen or after an exit 127.
ConnectPlain(t) ==
  \E from \in {shownCard[t], session[t]} :
    from.command # "" /\ Connected(t, from.id, "")

\* "always use a plain shell here", after an exit 127: the stored command is dropped; the
\* dial that follows is ConnectPlain's, if it succeeds.
ClearCommand(t) ==
  /\ session[t].command # ""
  /\ history' = [i \in 1..Len(history) |->
       IF history[i].id = session[t].id THEN [history[i] EXCEPT !.command = ""] ELSE history[i]]
  /\ UNCHANGED <<remember, shownCard, session, probing>>

\* commandSessionEnded, autoReconnect: the session's own command again.
Reconnect(t) == session[t] # NoCard /\ Connected(t, session[t].id, session[t].command)
-----------------------------------------------------------------------------
\* Mutant of Updated: an entry that is not there is made.
UpdatedOrMade(id, e) ==
  IF Has(history, id) THEN [i \in 1..Len(history) |-> IF history[i].id = id THEN e ELSE history[i]]
  ELSE SavedHistory(<<[e EXCEPT !.id = id]>> \o history)

\* updateConnection: the entry is replaced where it stands, if it is there.
Updated(id, e) == [i \in 1..Len(history) |-> IF history[i].id = id THEN e ELSE history[i]]

\* The card's screen is opened, or the home screen is drawn.
ShowCard(t) ==
  /\ \E i \in 1..Len(history) : shownCard' = [shownCard EXCEPT ![t] = history[i]]
  /\ UNCHANGED <<history, remember, session, probing>>

\* Its edits write through; a refused edit changes nothing.
Rename(t) ==
  /\ shownCard[t] # NoCard
  /\ \E n \in Names : history' = Updated(shownCard[t].id, [Stored(shownCard[t].id) EXCEPT !.name = n])
  \* renderConnection: the screen is drawn from what is stored now
  /\ shownCard' = [shownCard EXCEPT ![t] = Found(history', @.id)]
  /\ UNCHANGED <<remember, session, probing>>

SetCommand(t) ==
  /\ shownCard[t] # NoCard
  /\ \E c \in Commands : history' = Updated(shownCard[t].id, [Stored(shownCard[t].id) EXCEPT !.command = c])
  /\ UNCHANGED <<remember, shownCard, session, probing>>

SetAuto(t) ==
  /\ shownCard[t] # NoCard
  /\ \E on \in BOOLEAN : history' = Updated(shownCard[t].id, [Stored(shownCard[t].id) EXCEPT !.auto = on])
  /\ UNCHANGED <<remember, shownCard, session, probing>>

ForgetCard(t) ==
  /\ shownCard[t] # NoCard
  /\ history' = Without(shownCard[t].id)
  /\ shownCard' = [shownCard EXCEPT ![t] = NoCard]
  /\ UNCHANGED <<remember, session, probing>>

ForgetAll ==
  /\ history # <<>>
  /\ history' = <<>>
  /\ UNCHANGED <<remember, shownCard, session, probing>>

ToggleRemember ==
  /\ remember' = ~remember
  /\ UNCHANGED <<history, shownCard, session, probing>>

\* probeSession: the answer annotates the entry, or there is none.
Probed(id) == history' \in {history, Updated(id, [Stored(id) EXCEPT !.tools = TRUE])}

\* detectTools, when its probe is through.
Detected(id) ==
  /\ id \in probing
  /\ probing' = probing \ {id}
  /\ Probed(id)
  /\ UNCHANGED <<remember, shownCard, session>>

CardNext ==
  \/ ForgetAll \/ ToggleRemember
  \/ \E id \in Ids : Detected(id)
  \/ \E t \in CardTabs :
       \/ ConnectSheet(t) \/ ConnectCard(t) \/ ConnectPlain(t) \/ ClearCommand(t)
       \/ Reconnect(t) \/ ShowCard(t) \/ Rename(t) \/ SetCommand(t) \/ SetAuto(t)
       \/ ForgetCard(t)

CardSpec == CardInit /\ [][CardNext]_cardvars
-----------------------------------------------------------------------------
\* "neither must resurrect a connection the user chose not to remember" (updateConnection)
\* and "reconnecting must never cost a card its name" (recordConnection): whatever tabs
\* and late answers do, a card appears by a remembered connect alone, and the name and the
\* autoResume of a card that stays on the list are changed on its own screen alone.
CardsAreTheUsers ==
  [][\A id \in Ids :
       /\ Has(history', id) /\ ~Has(history, id)
            => remember /\ \E t \in CardTabs : session'[t].id = id /\ id \in probing'
       /\ Has(history', id) /\ Has(history, id) /\ SetIn(history', id) # SetIn(history, id)
            => \E t \in CardTabs : shownCard[t].id = id /\ (Rename(t) \/ SetAuto(t))]_cardvars
=============================================================================
