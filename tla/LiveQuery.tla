----------------------------- MODULE LiveQuery -----------------------------
(***************************************************************************)
(* Live queries on one table (live/mod.rs, live/tables.rs) over LISTEN and *)
(* NOTIFY (db.rs, multiple_process/notify.rs).                             *)
(*                                                                         *)
(* live_query makes a view and, if it is the first on the table, a trigger *)
(* that notifies the channel of the table; it listens there, shows a first *)
(* result, and leaves a refresher thread behind.  unsubscribe undoes this. *)
(* The trigger is counted: the count is a map under a mutex, the trigger   *)
(* is made in the transaction of live_query and dropped by a statement of  *)
(* unsubscribe.                                                            *)
(*                                                                         *)
(* LISTEN and UNLISTEN go to one session, in-process the engine's, in      *)
(* multi-process mode the notify connection's: `wire` holds the commands   *)
(* on their way, `pending` who awaits the answers; answers have no name.   *)
(* The table is a version number: what it holds after so many writes.      *)
(* PostgreSQL blocks writers, and other DDL on the table, while a          *)
(* transaction that made or drops a trigger is open.                       *)
(*                                                                         *)
(* The first result and every refresh are PGlite::query: Parse in one      *)
(* roundtrip, Execute in another, of the one unnamed statement.  In        *)
(* multi-process mode each roundtrip takes a connection of the pool, where *)
(* any other task's statement may stand by then (module Session, run       *)
(* session_query).  In-process tx_lock is held over both, but              *)
(* format_literals, which starts live_query, does not ask for it and       *)
(* replaces the statement.  Rows of another statement are `Foreign`.       *)
(***************************************************************************)
EXTENDS Integers, Sequences, FiniteSets

CONSTANTS
  Queries, NoQuery,
  Backends,   \* of "InProcess", "MultiProcess"
  MaxWrites,  \* bound of the model: writes to the table
  MaxFails    \* bound of the model: calls that fail or are dropped, lost notify connections

ASSUME LiveAssumption ==
  /\ NoQuery \notin Queries /\ Backends \subseteq {"InProcess", "MultiProcess"}
  /\ MaxWrites \in Nat /\ MaxFails \in Nat

VARIABLES
  backend,
  lock,       \* tx_lock: the call that holds it
  pc,         \* where the call on a query stands
  fresh,      \* live_query: the count was zero
  count,      \* live_triggers: the entry of the table, 0 when there is none
  trigger,    \* the trigger is there, committed
  ddl,        \* the call whose transaction has made the trigger and is still open
  listeners,  \* queries with a callback on the channel
  listening,  \* the session listens on the channel
  wire, pending, conn,
  table,      \* version of the table
  notes,      \* notifications on their way
  wake,       \* something is in the channel of the refresher
  done,       \* LiveQuery.done
  refresher,  \* "none", "idle", "query", "parsed", "callback", "gone"
  got, shown, \* version the refresher has read, version the last callback was given
  prepared,   \* in-process: the query whose SELECT is the unnamed statement of the engine
  late,       \* history: callbacks since unsubscribe began
  crossed,    \* history: a count was raised while it and the trigger disagreed
  unheard,    \* history: a notification was dropped with the response that carried it
  fails

callVars == <<pc, fresh, lock>>
triggerVars == <<count, trigger, ddl>>
notifyVars == <<listeners, listening, wire, pending, conn>>
dataVars == <<table, notes>>
threadVars == <<wake, done, refresher, got, shown>>
history == <<late, crossed, unheard, fails>>
vars == <<backend, callVars, triggerVars, notifyVars, dataVars, threadVars, prepared, history>>

Init ==
  /\ backend \in Backends
  /\ lock = NoQuery /\ ddl = NoQuery
  /\ pc = [q \in Queries |-> "new"] /\ fresh = [q \in Queries |-> FALSE]
  /\ count = 0 /\ trigger = FALSE
  /\ listeners = {} /\ listening = FALSE /\ wire = <<>> /\ pending = <<>> /\ conn = "up"
  /\ table = 0 /\ notes = 0
  /\ wake = [q \in Queries |-> FALSE] /\ done = [q \in Queries |-> FALSE]
  /\ refresher = [q \in Queries |-> "none"]
  /\ got = [q \in Queries |-> 0] /\ shown = [q \in Queries |-> 0] /\ prepared = NoQuery
  /\ late = [q \in Queries |-> 0] /\ crossed = FALSE /\ unheard = FALSE /\ fails = 0

InProcess == backend = "InProcess"

\* In-process a refresher has tx_lock from the Parse to the Execute of its query.
Reading == InProcess /\ \E r \in Queries : refresher[r] = "parsed"

\* In-process every statement takes tx_lock; in multi-process mode it has its connection.
Free(q) == InProcess => lock \in {NoQuery, q} /\ ~Reading

Goto(q, l) == pc' = [pc EXCEPT ![q] = l]

-----------------------------------------------------------------------------
(* live_query *)

\* format_literals: with parameters it describes the statement, without tx_lock.
FormatLiterals(q) ==
  /\ pc[q] = "new"
  /\ \/ Goto(q, "formatted") /\ prepared' = prepared
     \/ Goto(q, "typed") /\ prepared' = NoQuery
  /\ UNCHANGED <<backend, fresh, lock, triggerVars, notifyVars, dataVars, threadVars, history>>

\* Then it has the literals formatted, Parse to Execute in one roundtrip.
QueryWithTypes(q) ==
  /\ pc[q] = "typed"
  /\ Goto(q, "formatted") /\ prepared' = NoQuery
  /\ UNCHANGED <<backend, fresh, lock, triggerVars, notifyVars, dataVars, threadVars, history>>

\* PGlite::transaction and CREATE VIEW; in-process the Transaction keeps tx_lock.
Begin(q) ==
  /\ pc[q] = "formatted" /\ Free(q)
  /\ Goto(q, "begun")
  /\ lock' = IF InProcess THEN q ELSE lock
  /\ UNCHANGED <<backend, prepared, fresh, triggerVars, notifyVars, dataVars, threadVars, history>>

\* Mutant: the count is raised only for the first query.
RaiseOnce(q) ==
  /\ pc[q] = "begun"
  /\ count' = 1 /\ fresh' = [fresh EXCEPT ![q] = count = 0]
  /\ crossed' = (crossed \/ (count > 0 /\ ~trigger) \/ \E r \in Queries : pc[r] = "dropping")
  /\ Goto(q, "counted")
  /\ UNCHANGED <<backend, prepared, lock, trigger, ddl, notifyVars, dataVars, threadVars, late, unheard, fails>>

\* The reference count, under its mutex.
Raise(q) ==
  /\ pc[q] = "begun"
  /\ count' = count + 1 /\ fresh' = [fresh EXCEPT ![q] = count = 0]
  /\ crossed' = (crossed \/ (count > 0 /\ ~trigger) \/ \E r \in Queries : pc[r] = "dropping")
  /\ Goto(q, "counted")
  /\ UNCHANGED <<backend, prepared, lock, trigger, ddl, notifyVars, dataVars, threadVars, late, unheard, fails>>

\* trigger_ddl, CREATE OR REPLACE, in the transaction.
MakeTrigger(q) ==
  /\ pc[q] = "counted" /\ fresh[q] /\ ddl = NoQuery
  /\ ddl' = q
  /\ Goto(q, "made")
  /\ UNCHANGED <<backend, prepared, fresh, lock, count, trigger, notifyVars, dataVars, threadVars, history>>

CommitView(q) ==
  /\ pc[q] = "made" \/ (pc[q] = "counted" /\ ~fresh[q])
  /\ trigger' = (trigger \/ ddl = q)
  /\ ddl' = IF ddl = q THEN NoQuery ELSE ddl
  /\ lock' = IF lock = q THEN NoQuery ELSE lock
  /\ fresh' = [fresh EXCEPT ![q] = FALSE]
  /\ Goto(q, "committed")
  /\ UNCHANGED <<backend, prepared, count, notifyVars, dataVars, threadVars, history>>

\* NotifyConn::command (in-process: exec on the engine): the sender enters `pending` and the
\* command the stream, both under the writer mutex.  A lost connection refuses the command
\* and keeps the sender.
Command(q, c, awaiting) ==
  /\ pending' = Append(pending, q)
  /\ IF conn = "up"
     THEN wire' = Append(wire, c) /\ lock' = q /\ Goto(q, awaiting)
     ELSE wire' = wire /\ lock' = lock /\ Goto(q, "failed")

\* listen: under tx_lock the callback is registered, then LISTEN is sent.
Listen(q) ==
  /\ pc[q] = "committed" /\ lock = NoQuery /\ ~Reading
  /\ listeners' = listeners \cup {q}
  /\ Command(q, "listen", "listening")
  /\ UNCHANGED <<backend, prepared, fresh, triggerVars, listening, conn, dataVars, threadVars, history>>

\* PGlite::query: Parse and Describe, in-process under tx_lock from here on.
ParseShow(q) ==
  /\ pc[q] = "listened" /\ Free(q)
  /\ Goto(q, "showing")
  /\ lock' = IF InProcess THEN q ELSE lock
  /\ prepared' = IF InProcess THEN q ELSE NoQuery
  /\ UNCHANGED <<backend, fresh, triggerVars, notifyVars, dataVars, threadVars, history>>

\* What the Execute of a query may return: its own rows, those of the statement that has taken
\* the place of its own, and an error when that one takes parameters, or there is none.
Foreign == -1
Kept(q) == InProcess /\ prepared = q
Rows(q) == IF Kept(q) THEN {table} ELSE IF InProcess THEN {Foreign} ELSE {table, Foreign}

\* Bind and Execute: the first result is shown, and the refresher thread starts; or the call
\* returns the error.
ShowRows(q) ==
  /\ pc[q] = "showing"
  /\ \/ /\ \E v \in Rows(q) : shown' = [shown EXCEPT ![q] = v]
        /\ refresher' = [refresher EXCEPT ![q] = "idle"]
        /\ Goto(q, "live")
     \/ /\ ~Kept(q)
        /\ Goto(q, "failed")
        /\ UNCHANGED <<refresher, shown>>
  /\ lock' = IF lock = q THEN NoQuery ELSE lock
  /\ prepared' = NoQuery
  /\ UNCHANGED <<backend, fresh, triggerVars, notifyVars, dataVars, wake, done, got, history>>

-----------------------------------------------------------------------------
(* unsubscribe *)

\* What a query has read or shown no longer matters.
Forget(q) == got' = [got EXCEPT ![q] = 0] /\ shown' = [shown EXCEPT ![q] = 0]

Unsubscribe(q) ==
  /\ pc[q] = "live"
  /\ done' = [done EXCEPT ![q] = TRUE] /\ wake' = [wake EXCEPT ![q] = TRUE]
  /\ Forget(q)
  /\ Goto(q, "leaving")
  /\ UNCHANGED <<backend, prepared, fresh, lock, triggerVars, notifyVars, dataVars, refresher, history>>

\* unlisten_token: UNLISTEN only when no callback is left on the channel.
Unlisten(q) ==
  /\ pc[q] = "leaving" /\ lock = NoQuery /\ ~Reading
  /\ listeners' = listeners \ {q}
  /\ IF listeners' = {}
     THEN Command(q, "unlisten", "unlistening")
     ELSE Goto(q, "unlistened") /\ UNCHANGED <<wire, pending, lock>>
  /\ UNCHANGED <<backend, prepared, fresh, triggerVars, listening, conn, dataVars, threadVars, history>>

\* The count goes down under the mutex; the last one out drops the trigger, afterwards.
Lower(q) ==
  /\ pc[q] = "unlistened"
  /\ Goto(q, IF count = 1 THEN "dropping" ELSE "dropped")
  /\ count' = IF count > 0 THEN count - 1 ELSE 0
  /\ UNCHANGED <<backend, prepared, fresh, lock, trigger, ddl, notifyVars, dataVars, threadVars, history>>

\* Mutant: the trigger is left to the next unsubscribe.
KeepTrigger(q) ==
  /\ pc[q] = "dropping" /\ Free(q) /\ ddl = NoQuery
  /\ Goto(q, "dropped")
  /\ UNCHANGED <<backend, prepared, fresh, lock, triggerVars, notifyVars, dataVars, threadVars, history>>

DropTrigger(q) ==
  /\ pc[q] = "dropping" /\ Free(q) /\ ddl = NoQuery
  /\ trigger' = FALSE
  /\ Goto(q, "dropped")
  /\ UNCHANGED <<backend, prepared, fresh, lock, count, ddl, notifyVars, dataVars, threadVars, history>>

DropView(q) ==
  /\ pc[q] = "dropped" /\ Free(q)
  /\ Goto(q, "gone")
  /\ UNCHANGED <<backend, prepared, fresh, lock, triggerVars, notifyVars, dataVars, threadVars, history>>

\* A call returns an error, or its future is dropped, at any await.  Its transaction is
\* rolled back and tx_lock is free again; count, callback, view, trigger stay.
Fail(q) ==
  /\ pc[q] \notin {"new", "live", "gone", "failed"} /\ fails < MaxFails
  /\ Goto(q, "failed") /\ fails' = fails + 1
  /\ ddl' = IF ddl = q THEN NoQuery ELSE ddl
  /\ lock' = IF lock = q THEN NoQuery ELSE lock
  /\ UNCHANGED <<backend, prepared, fresh, count, trigger, notifyVars, dataVars, threadVars, late, crossed, unheard>>

-----------------------------------------------------------------------------
(* The session that listens, and its reader *)

\* An answer goes to the oldest sender, who may have gone.
Awaiting == {"listening", "unlistening"}
AnswerTo(q, l) ==
  IF pc[q] \in Awaiting
  THEN pc' = [pc EXCEPT ![q] = l] /\ lock' = IF lock = q THEN NoQuery ELSE lock
  ELSE UNCHANGED <<pc, lock>>
Answered(q) == IF pc[q] = "listening" THEN "listened" ELSE "unlistened"

\* Mutant: the answer goes to the newest sender.
AnswerNewest ==
  /\ wire # <<>> /\ pending # <<>>
  /\ listening' = (Head(wire) = "listen")
  /\ wire' = Tail(wire)
  /\ LET q == pending[Len(pending)] IN AnswerTo(q, Answered(q))
  /\ pending' = SubSeq(pending, 1, Len(pending) - 1)
  /\ UNCHANGED <<backend, prepared, fresh, triggerVars, listeners, conn, dataVars, threadVars, history>>

Answer ==
  /\ wire # <<>>
  /\ listening' = (Head(wire) = "listen")
  /\ wire' = Tail(wire)
  /\ AnswerTo(Head(pending), Answered(Head(pending)))
  /\ pending' = Tail(pending)
  /\ UNCHANGED <<backend, prepared, fresh, triggerVars, listeners, conn, dataVars, threadVars, history>>

\* The notify connection is lost: the reader ends and fails who is pending.  The pool keeps
\* the dead connection in its slot.
NotifyLost ==
  /\ ~InProcess /\ conn = "up" /\ fails < MaxFails
  /\ conn' = "down" /\ listening' = FALSE /\ wire' = <<>> /\ notes' = 0
  /\ pc' = [q \in Queries |-> IF pc[q] \in Awaiting THEN "failed" ELSE pc[q]]
  /\ lock' = NoQuery /\ pending' = <<>>
  /\ fails' = fails + 1
  /\ UNCHANGED <<backend, prepared, fresh, triggerVars, listeners, table, threadVars, late, crossed, unheard>>

\* A notification reaches the callbacks of the channel.
Deliver ==
  /\ notes > 0
  /\ notes' = notes - 1
  /\ wake' = [q \in Queries |-> wake[q] \/ (q \in listeners /\ ~done[q])]
  /\ UNCHANGED <<backend, prepared, callVars, triggerVars, notifyVars, table, done, refresher, got, shown, history>>

\* In-process a notification comes with the response to a statement: it is lost when the
\* caller of that statement has gone, or when an ErrorResponse stands before it.
Unheard ==
  /\ InProcess /\ notes > 0 /\ fails < MaxFails
  /\ notes' = notes - 1 /\ unheard' = TRUE /\ fails' = fails + 1
  /\ UNCHANGED <<backend, prepared, callVars, triggerVars, notifyVars, table, threadVars, late, crossed>>

\* A write by anybody: its trigger notifies at commit.
Write ==
  /\ table < MaxWrites /\ ddl = NoQuery /\ (InProcess => lock = NoQuery /\ ~Reading)
  /\ table' = table + 1
  /\ notes' = IF trigger /\ listening THEN notes + 1 ELSE notes
  /\ UNCHANGED <<backend, prepared, callVars, triggerVars, notifyVars, threadVars, history>>

-----------------------------------------------------------------------------
(* The refresher thread *)

\* LiveQuery::refresh
Refresh(q) ==
  /\ pc[q] = "live" /\ ~wake[q]
  /\ wake' = [wake EXCEPT ![q] = TRUE]
  /\ UNCHANGED <<backend, prepared, callVars, triggerVars, notifyVars, dataVars, done, refresher, got, shown, history>>

\* Mutant: `done` is not looked at.
TakeAlways(q) ==
  /\ refresher[q] = "idle" /\ wake[q]
  /\ wake' = [wake EXCEPT ![q] = FALSE]
  /\ refresher' = [refresher EXCEPT ![q] = "query"]
  /\ UNCHANGED <<backend, prepared, callVars, triggerVars, notifyVars, dataVars, done, got, shown, history>>

\* recv, drain, look at `done`.
Take(q) ==
  /\ refresher[q] = "idle" /\ wake[q]
  /\ wake' = [wake EXCEPT ![q] = FALSE]
  /\ refresher' = [refresher EXCEPT ![q] = IF done[q] THEN "gone" ELSE "query"]
  /\ UNCHANGED <<backend, prepared, callVars, triggerVars, notifyVars, dataVars, done, got, shown, history>>

\* PGlite::query, as in ParseShow.  An error (the view is gone, or any other) ends the thread.
ParseView(q) ==
  /\ refresher[q] = "query" /\ Free(NoQuery)
  /\ \/ /\ pc[q] # "gone"
        /\ refresher' = [refresher EXCEPT ![q] = "parsed"]
        /\ prepared' = IF InProcess THEN q ELSE NoQuery
        /\ fails' = fails
     \/ /\ pc[q] = "gone"
        /\ refresher' = [refresher EXCEPT ![q] = "gone"]
        /\ UNCHANGED <<prepared, fails>>
     \/ /\ fails < MaxFails
        /\ fails' = fails + 1
        /\ refresher' = [refresher EXCEPT ![q] = "gone"]
        /\ prepared' = prepared
  /\ UNCHANGED <<backend, callVars, triggerVars, notifyVars, dataVars, wake, done, got, shown, late, crossed, unheard>>

ReadView(q) ==
  /\ refresher[q] = "parsed"
  /\ \/ /\ \E v \in Rows(q) \ (IF pc[q] = "gone" THEN {table} ELSE {}) :
             got' = [got EXCEPT ![q] = IF done[q] THEN 0 ELSE v]
        /\ refresher' = [refresher EXCEPT ![q] = "callback"]
        /\ fails' = fails
     \/ /\ ~Kept(q) \/ pc[q] = "gone"
        /\ refresher' = [refresher EXCEPT ![q] = "gone"]
        /\ UNCHANGED <<got, fails>>
     \/ /\ fails < MaxFails
        /\ fails' = fails + 1
        /\ refresher' = [refresher EXCEPT ![q] = "gone"]
        /\ got' = got
  /\ prepared' = NoQuery
  /\ UNCHANGED <<backend, callVars, triggerVars, notifyVars, dataVars, wake, done, shown, late, crossed, unheard>>

\* Mutant: the channel is drained after the view was read.
CallbackDrains(q) ==
  /\ refresher[q] = "callback"
  /\ shown' = [shown EXCEPT ![q] = got[q]] /\ got' = [got EXCEPT ![q] = 0]
  /\ late' = [late EXCEPT ![q] = IF done[q] THEN @ + 1 ELSE @]
  /\ refresher' = [refresher EXCEPT ![q] = "idle"] /\ wake' = [wake EXCEPT ![q] = FALSE]
  /\ UNCHANGED <<backend, prepared, callVars, triggerVars, notifyVars, dataVars, done, crossed, unheard, fails>>

Callback(q) ==
  /\ refresher[q] = "callback"
  /\ shown' = [shown EXCEPT ![q] = got[q]] /\ got' = [got EXCEPT ![q] = 0]
  /\ late' = [late EXCEPT ![q] = IF done[q] THEN @ + 1 ELSE @]
  /\ refresher' = [refresher EXCEPT ![q] = "idle"]
  /\ UNCHANGED <<backend, prepared, callVars, triggerVars, notifyVars, dataVars, wake, done, crossed, unheard, fails>>

-----------------------------------------------------------------------------
Calling(q) ==
  \/ QueryWithTypes(q) \/ Begin(q) \/ Raise(q) \/ MakeTrigger(q) \/ CommitView(q)
  \/ Listen(q) \/ ParseShow(q) \/ ShowRows(q)
  \/ Unlisten(q) \/ Lower(q) \/ DropTrigger(q) \/ DropView(q)
Thread(q) == Take(q) \/ ParseView(q) \/ ReadView(q) \/ Callback(q)

Next ==
  \/ \E q \in Queries :
       FormatLiterals(q) \/ Calling(q) \/ Unsubscribe(q) \/ Fail(q) \/ Refresh(q) \/ Thread(q)
  \/ Answer \/ NotifyLost \/ Deliver \/ Unheard \/ Write

\* A call that has begun is driven on; the threads and the server run.
Fairness ==
  /\ \A q \in Queries : WF_vars(Calling(q)) /\ WF_vars(Thread(q))
  /\ WF_vars(Answer) /\ WF_vars(Deliver)

Spec == Init /\ [][Next]_vars /\ Fairness

-----------------------------------------------------------------------------
(* Properties *)

\* When every query has been unsubscribed nothing of them is left: no count, no trigger, no
\* callback, and the session does not listen.
TornDown ==
  (\A q \in Queries : pc[q] \in {"new", "typed", "formatted", "gone"}) =>
    count = 0 /\ ~trigger /\ listeners = {} /\ ~listening

\* listen returned Ok: the session does listen, also when an earlier LISTEN or UNLISTEN was
\* given up and its answer came later.
ListenIsOn ==
  conn = "up" => \A q \in Queries : pc[q] \in {"listened", "showing", "live"} => listening

\* unsubscribe does not wait for the refresher: a refresh under way may still call back, even
\* after unsubscribe has returned, but only that one.
LateOnce == \A q \in Queries : late[q] <= 1

\* What the code does not make up for: set-up and tear-down on the table crossed, a dropped
\* notification, a lost notify connection.
Excused == crossed \/ unheard \/ conn # "up"

\* With nothing on its way, a live query whose refresher lives shows the table as it is, if
\* not the rows of another statement: the code does not notice those, and does not ask again.
\* Never an older version of its own.
Current ==
  ~Excused /\ notes = 0 =>
    \A q \in Queries : pc[q] = "live" /\ refresher[q] = "idle" /\ ~wake[q] => shown[q] \in {table, Foreign}

\* What is written is shown in the end (the writes of the model do end), or the rows of
\* another statement are.  tx_lock is no fair mutex: whoever keeps calling refresh may keep
\* the other refreshers from it.
Refreshed ==
  <>[][\A q \in Queries : ~Refresh(q)]_vars =>
    \A q \in Queries :
      (pc[q] = "live" /\ shown[q] # table) ~>
        (shown[q] \in {table, Foreign} \/ pc[q] # "live" \/ refresher[q] = "gone" \/ Excused)
=============================================================================
