----------------------------- MODULE Transfers -----------------------------
(***************************************************************************)
(* A download, from the tap to the browser's own download manager: the     *)
(* page's records and entries (site/transfer-ui.mjs), the engine in the    *)
(* component (wosh-client/src/transfer.rs download_attempt, supervise) and *)
(* the worker that holds the staging file (transfer-io.ts,                 *)
(* transfer-worker.mjs).  A file is known by how many chunks it holds and  *)
(* by whether they are the remote file's, in order.                        *)
(***************************************************************************)
EXTENDS Integers, FiniteSets

CONSTANTS Total,        \* chunks in every remote file
          MaxRecords,   \* bound: records minted, one per download, retry or resume
          MaxOpens,     \* bound: page loads and openings of the panel
          KnownLosses   \* the ways to lose a download that this instance lets happen

ASSUME TransfersAssumption ==
  Total \in Nat \ {0} /\ MaxRecords \in Nat /\ MaxOpens \in Nat
  /\ KnownLosses \subseteq {"again", "unflushed", "skipped"}

VARIABLES minted,    \* records minted so far
          staging,   \* per record: the staging file it names
          recs,      \* IndexedDB: the records that are stored
          entry,     \* the page's map: "none", or what it shows of the transfer
          engine,    \* the component's transfer: [pc, at, done]
          sinks,     \* the worker's open handles: [offset, flushed], or Shut
          files,     \* the staged files: [len, clean]
          disposing, \* staging files whose sink was dropped and is not yet closed
          reading,   \* records loadResumable has read and not yet looked at
          fresh,     \* downloads between the record's put and the map's set
          timers,    \* downloads the browser is reading: the 30 s of the clean-up
          pass,      \* the record whose progress is awaited, Resting, or NoPass
          anyActive, \* the pass has seen a transfer that still runs
          dropdown,  \* the transfers dropdown is open (visible)
          opens

xvars == <<minted, staging, recs, entry, engine, sinks, files, disposing, reading,
           fresh, timers, pass, anyActive, dropdown, opens>>
polls == <<pass, anyActive, dropdown>>
disk == <<sinks, files, disposing>>
shelf == <<recs, reading, fresh, timers>>

Records == 1..MaxRecords
NoPass == 0
Resting == MaxRecords + 1   \* between two passes
Shut == [offset |-> -1, flushed |-> -1]
Absent == [len |-> -1, clean |-> TRUE]
Idle == [pc |-> "none", at |-> 0, done |-> 0]
Over == {"ok", "err"}
Runs(id) == engine[id].pc \in {"anchor", "run"}

\* The staging file of a record is used by another transfer of this page.
Shared(id) == \E o \in Records \ {id} :
  staging[o] = staging[id] /\ (Runs(o) \/ o \in timers \cup fresh \/ entry[o] \in {"starting", "active"})

XInit ==
  /\ minted = 0 /\ staging = [id \in Records |-> 0] /\ recs = {}
  /\ entry = [id \in Records |-> "none"]
  /\ engine = [id \in Records |-> Idle]
  /\ sinks = [s \in Records |-> Shut] /\ files = [s \in Records |-> Absent]
  /\ disposing = {} /\ reading = {} /\ fresh = {} /\ timers = {}
  /\ pass = NoPass /\ anyActive = FALSE /\ dropdown = FALSE /\ opens = 0
-----------------------------------------------------------------------------
(* transfer-ui.mjs: starting, resuming, giving up. *)

\* A pass runs to the next entry with a handle, or through; after it, another one later,
\* or none with nothing running and nobody looking.
Walk(from, any) ==
  LET ahead == {id \in Records : id > from /\ entry'[id] \in {"active", "settled"}}
  IN /\ anyActive' = any
     /\ pass' = IF ahead # {} THEN CHOOSE id \in ahead : \A o \in ahead : id <= o
                ELSE IF any \/ dropdown' THEN Resting ELSE NoPass

\* Mutant of StartPolling: the loop is started by the panel alone.
StartNothing == UNCHANGED <<pass, anyActive>>

\* startPolling: one loop at a time.
StartPolling == IF pass = NoPass THEN Walk(0, FALSE) ELSE UNCHANGED <<pass, anyActive>>

\* doOpen: a handle at the end of the file, unless one is held.
Opened(s) ==
  LET size == IF files[s] = Absent THEN 0 ELSE files[s].len
  IN /\ files' = [files EXCEPT ![s] = IF @ = Absent THEN [len |-> 0, clean |-> TRUE] ELSE @]
     /\ sinks' = [sinks EXCEPT ![s] = IF @ = Shut THEN [offset |-> size, flushed |-> size] ELSE @]

\* doRemove: the handle and the file.
Removed(s) == sinks' = [sinks EXCEPT ![s] = Shut] /\ files' = [files EXCEPT ![s] = Absent]

\* beginDownload up to idbPut: a new record, for a new staging file or the one at hand;
\* "start over" removes its bytes first.
Begin(s, overwrite) ==
  /\ minted < MaxRecords
  /\ minted' = minted + 1
  /\ LET id == minted + 1 IN
     /\ staging' = [staging EXCEPT ![id] = IF s = 0 THEN id ELSE s]
     /\ recs' = recs \cup {id}
     /\ fresh' = fresh \cup {id}
  /\ IF overwrite
     THEN Removed(s)
     ELSE UNCHANGED <<sinks, files>>

Download ==
  /\ Begin(0, FALSE)
  /\ UNCHANGED <<entry, engine, disposing, reading, timers, opens, polls>>

\* The record is stored, transactions being done in order: the entry is shown, the sink
\* opened, the download asked for.
Shown(id) ==
  /\ id \in fresh /\ \A o \in fresh : id <= o
  /\ fresh' = fresh \ {id}
  /\ entry' = [entry EXCEPT ![id] = "starting"]
  /\ Opened(staging[id])
  /\ UNCHANGED <<minted, staging, recs, engine, disposing, reading, timers, opens, polls>>

\* session.download answers, in the order of the calls (Gate): a handle to poll.
Started(id) ==
  /\ entry[id] = "starting" /\ \A o \in 1..id - 1 : entry[o] # "starting"
  /\ entry' = [entry EXCEPT ![id] = "active"]
  /\ engine' = [engine EXCEPT ![id].pc = "anchor"]
  /\ UNCHANGED <<minted, staging, disk, shelf, dropdown, opens>>
  /\ StartPolling

\* ... or it is refused: the entry shows the error, and nothing polls it.
NotStarted(id) ==
  /\ entry[id] = "starting" /\ \A o \in 1..id - 1 : entry[o] # "starting"
  /\ entry' = [entry EXCEPT ![id] = "failed"]
  /\ disposing' = disposing \cup {staging[id]}
  /\ UNCHANGED <<minted, staging, engine, sinks, files, shelf, polls, opens>>

\* What the rows offer: an interrupted download can be resumed or discarded, one that
\* failed retried.
Resumable(id) == entry[id] = "resumable"
Retryable(id) == entry[id] = "failed" \/ (entry[id] = "settled" /\ engine[id].pc = "err")

\* resumeDownload, and retryTransfer with "retry" or "start over": the entry goes, a new
\* record names the same staging file; the old record stays where it is.
Again(id, overwrite) ==
  /\ (Resumable(id) /\ ~overwrite) \/ Retryable(id)
  /\ Shared(id) => "again" \in KnownLosses
  /\ Begin(staging[id], overwrite)
  /\ entry' = [entry EXCEPT ![id] = "none"]
  /\ UNCHANGED <<engine, disposing, reading, timers, opens, polls>>

\* discardResumable: the record, and then the staged file.
Discard(id) ==
  /\ Resumable(id)
  /\ Shared(id) => "again" \in KnownLosses
  /\ entry' = [entry EXCEPT ![id] = "none"]
  /\ recs' = recs \ {id}
  /\ Removed(staging[id])
  /\ UNCHANGED <<minted, staging, engine, disposing, reading, fresh, timers, opens, polls>>
-----------------------------------------------------------------------------
(* The worker, and the engine that writes through it. *)

\* Mutant of Committed: what was written, not what is durable.
CommittedOffset(sink) == sink.offset

\* doCommitted.
Committed(sink) == sink.flushed

\* doFlush.
Flushing(s) == sinks' = [sinks EXCEPT ![s].flushed = sinks[s].offset]

Becoming(id, e) == engine' = [engine EXCEPT ![id] = e]
Reported(id) == engine[id].done

\* download_attempt, its start: what is committed is where the download goes on; a
\* complete file is done, one longer than the remote's is refused, a closed sink fails.
Anchor(id) ==
  LET s == staging[id]
      at == Committed(sinks[s])
      pc == IF sinks[s] = Shut \/ at > Total THEN "err" ELSE IF at = Total THEN "ok" ELSE "run"
  IN /\ engine[id].pc = "anchor"
     /\ Becoming(id, [pc |-> pc, at |-> IF pc = "run" THEN at ELSE 0,
                      done |-> IF pc = "run" THEN at ELSE Reported(id)])
     /\ IF pc = "ok" THEN Flushing(s) ELSE UNCHANGED sinks
     /\ disposing' = IF pc = "run" THEN disposing ELSE disposing \cup {s}
     /\ UNCHANGED <<minted, staging, entry, files, shelf, polls, opens>>

\* The next chunk in order is appended (doWrite), and what is committed is reported.
WriteChunk(id) ==
  LET s == staging[id] IN
  /\ engine[id].pc = "run" /\ engine[id].at < Total /\ sinks[s] # Shut
  /\ sinks' = [sinks EXCEPT ![s].offset = @ + 1]
  /\ files' = [files EXCEPT ![s] = [len |-> sinks[s].offset + 1,
                                    clean |-> @.clean /\ engine[id].at = sinks[s].offset]]
  /\ Becoming(id, [pc |-> "run", at |-> engine[id].at + 1, done |-> Committed(sinks'[s])])
  /\ UNCHANGED <<minted, staging, entry, disposing, shelf, polls, opens>>

\* FLUSH_EVERY_BYTES have been written.
FlushSome(id) ==
  LET s == staging[id] IN
  /\ engine[id].pc = "run" /\ sinks[s] # Shut /\ sinks[s].flushed # sinks[s].offset
  /\ Flushing(s)
  /\ Becoming(id, [engine[id] EXCEPT !.done = Committed(sinks'[s])])
  /\ UNCHANGED <<minted, staging, entry, files, disposing, shelf, polls, opens>>

\* Everything is written: flushed, closed and done.
Finish(id) ==
  LET s == staging[id] IN
  /\ engine[id].pc = "run" /\ engine[id].at = Total /\ sinks[s] # Shut
  /\ Flushing(s)
  /\ Becoming(id, [pc |-> "ok", at |-> 0, done |-> Committed(sinks'[s])])
  /\ disposing' = disposing \cup {s}
  /\ UNCHANGED <<minted, staging, entry, files, shelf, polls, opens>>

\* The channel died or the transport is resuming: anchored again, and what was written is
\* flushed first, but for one way: the channel died in another transfer's round while this
\* one awaited the sink, so the read it issues next is refused.
Reanchor(id) ==
  LET s == staging[id] IN
  /\ engine[id].pc = "run" /\ engine[id].at > 0 /\ sinks[s] # Shut
  /\ \/ Flushing(s)
     \/ /\ "unflushed" \in KnownLosses
        /\ engine[id].at < Total /\ \E o \in Records \ {id} : Runs(o)
        /\ UNCHANGED sinks
  /\ Becoming(id, [engine[id] EXCEPT !.pc = "anchor", !.at = 0])
  /\ UNCHANGED <<minted, staging, entry, files, disposing, shelf, polls, opens>>

\* Cancelled, refused, cut short, the session gone, or a sink that is closed: an error;
\* what reached an open sink is flushed.
Fails(id) ==
  LET s == staging[id] IN
  /\ engine[id].pc = "run"
  /\ IF sinks[s] # Shut THEN Flushing(s) ELSE UNCHANGED sinks
  /\ Becoming(id, [engine[id] EXCEPT !.pc = "err", !.at = 0])
  /\ disposing' = disposing \cup {s}
  /\ UNCHANGED <<minted, staging, entry, files, shelf, polls, opens>>

\* The dropped sink's close reaches the worker, whatever is open under that name by now.
Close(s) ==
  /\ s \in disposing
  /\ disposing' = disposing \ {s}
  /\ sinks' = [sinks EXCEPT ![s] = Shut]
  /\ UNCHANGED <<minted, staging, entry, engine, files, shelf, polls, opens>>
-----------------------------------------------------------------------------
(* Polling. *)

\* Mutant of HandedOff: whatever the outcome was.
HandedOffAlways(id) == TRUE

\* finishTransfer hands over what has arrived.
HandedOff(id) == engine[id].pc = "ok"

\* progress() answers: it runs, or it is over; over for the first time, it is settled,
\* and a download that arrived is closed and handed to the browser.  Or it throws, the
\* instance being occupied, and the pass goes on as if it had not been asked.
Ask ==
  /\ pass \in Records
  /\ \/ /\ engine[pass].pc \notin Over
        /\ UNCHANGED <<entry, sinks, timers, dropdown>>
        /\ Walk(pass, TRUE)
     \/ /\ engine[pass].pc \in Over
        /\ entry' = [entry EXCEPT ![pass] = IF @ = "active" THEN "settled" ELSE @]
        /\ IF entry[pass] = "active" /\ HandedOff(pass)
           THEN /\ sinks' = [sinks EXCEPT ![staging[pass]] = Shut]
                /\ timers' = timers \cup {pass}
           ELSE UNCHANGED <<sinks, timers>>
        /\ UNCHANGED dropdown
        /\ Walk(pass, anyActive)
     \/ /\ "skipped" \in KnownLosses
        /\ UNCHANGED <<entry, sinks, timers, dropdown>>
        /\ Walk(pass, anyActive)
  /\ UNCHANGED <<minted, staging, recs, engine, files, disposing, reading, fresh, opens>>

Tick ==
  /\ pass = Resting
  /\ UNCHANGED <<minted, staging, entry, engine, disk, shelf, dropdown, opens>>
  /\ Walk(0, FALSE)

\* toggleDropdown, with a transfer to show; or the open dropdown is dismissed.
Toggle ==
  /\ dropdown \/ \E id \in Records : entry[id] # "none"
  /\ dropdown' = ~dropdown
  /\ UNCHANGED <<minted, staging, entry, engine, disk, shelf, opens>>
  /\ IF dropdown THEN UNCHANGED <<pass, anyActive>> ELSE StartPolling

\* Thirty seconds after the handoff the staged file goes, and its record.
CleanUp(id) ==
  /\ id \in timers
  /\ timers' = timers \ {id}
  /\ recs' = recs \ {id}
  /\ Removed(staging[id])
  /\ UNCHANGED <<minted, staging, entry, engine, disposing, reading, fresh, polls, opens>>
-----------------------------------------------------------------------------
(* The panel opened again, and the page loaded again. *)

\* The button: polling, and loadResumable reads the records.
OpenPanel ==
  /\ opens < MaxOpens
  /\ opens' = opens + 1
  /\ dropdown' = FALSE
  /\ reading' = {id \in recs : entry[id] = "none"}
  /\ UNCHANGED <<minted, staging, recs, entry, engine, disk, fresh, timers>>
  /\ StartPolling

\* loadResumable, one record, the check and the look taken together: it is shown already,
\* or its file is gone, or whole, or can be resumed.  A record that was being stored when
\* the records were asked for is in the map by the time they are here.
LookAt(id) ==
  /\ id \in reading \ fresh
  /\ Shared(id) => "again" \in KnownLosses
  /\ reading' = reading \ {id}
  /\ LET s == staging[id] IN
     \/ /\ entry[id] # "none"
        /\ UNCHANGED <<recs, entry, sinks, files>>
     \/ /\ entry[id] = "none" /\ files[s] = Absent
        /\ recs' = recs \ {id}
        /\ UNCHANGED <<entry, sinks, files>>
     \/ /\ entry[id] = "none" /\ files[s].len >= Total
        /\ recs' = recs \ {id}
        /\ Removed(s)
        /\ UNCHANGED entry
     \/ /\ entry[id] = "none" /\ files[s].len \in 0..Total - 1
        /\ entry' = [entry EXCEPT ![id] = "resumable"]
        /\ UNCHANGED <<recs, sinks, files>>
  /\ UNCHANGED <<minted, staging, engine, disposing, fresh, timers, polls, opens>>

\* The page is loaded again, or died: the records and the files are what is left, and of
\* what was written but not flushed any part.
ReloadPage ==
  /\ opens < MaxOpens
  /\ opens' = opens + 1
  /\ \E kept \in [Records -> 0..Total] :
       /\ \A s \in Records : IF sinks[s] = Shut THEN kept[s] = 0
                             ELSE kept[s] \in sinks[s].flushed..sinks[s].offset
       /\ files' = [s \in Records |-> IF sinks[s] = Shut THEN files[s]
                                      ELSE [files[s] EXCEPT !.len = kept[s]]]
  /\ sinks' = [s \in Records |-> Shut]
  /\ entry' = [id \in Records |-> "none"]
  /\ engine' = [id \in Records |-> Idle]
  /\ disposing' = {} /\ reading' = {} /\ fresh' = {} /\ timers' = {}
  /\ pass' = NoPass /\ anyActive' = FALSE /\ dropdown' = FALSE
  /\ UNCHANGED <<minted, staging, recs>>

Polling == Ask \/ Tick

XNext ==
  \/ Download \/ Polling \/ Toggle \/ OpenPanel \/ ReloadPage
  \/ \E id \in Records :
       \/ Shown(id) \/ Started(id) \/ NotStarted(id) \/ Discard(id) \/ Anchor(id)
       \/ WriteChunk(id) \/ FlushSome(id) \/ Finish(id) \/ Reanchor(id)
       \/ Fails(id) \/ Close(id) \/ CleanUp(id) \/ LookAt(id)
       \/ \E overwrite \in BOOLEAN : Again(id, overwrite)

XSpec == XInit /\ [][XNext]_xvars
-----------------------------------------------------------------------------
\* "nothing ever claims a file is whole that is not" (terminal.wit download), and "a
\* corrupted handoff" (finishTransfer): from the handoff until the clean-up, the staged
\* file is the remote one, through failures, retries, resumes and reloads.
HandedWhole == \A id \in timers : files[staging[id]] = [len |-> Total, clean |-> TRUE]

\* "overstating it corrupts the file" (terminal.wit sink): a page death costs nothing
\* that was reported as committed.
NeverOverstates ==
  [][opens' # opens /\ ~(\E id \in Records : entry'[id] # "none")
       => \A id \in Records : Runs(id) => Reported(id) <= files'[staging[id]].len]_xvars

\* "an active transfer with the panel closed still needs the slow background cadence"
\* (startPolling): while a started transfer is not settled, a pass over the transfers is
\* under way or due, whoever looks.
Polled == \A id \in Records : entry[id] = "active" => pass # NoPass
=============================================================================
