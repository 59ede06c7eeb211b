----------------------------- MODULE PgSession -----------------------------
(***************************************************************************)
(* A PostgreSQL session as the library uses it: what one command of the    *)
(* simple or extended protocol does to the transaction block, to the       *)
(* unnamed prepared statement and to the writes that are not committed     *)
(* yet.  PostgreSQL is not part of the repository; this module is the part *)
(* of its behaviour that db.rs, transaction.rs and the workers build on.   *)
(*                                                                         *)
(* A command is [by, to, op, n]: statement n of task `by`, answered to     *)
(* `to`.  A write is the pair <<by, n>>.                                   *)
(***************************************************************************)

NoStmt == <<>>
NewSession == [tx |-> "none", stmt |-> NoStmt, writes |-> {}]
TxStates == {"none", "open", "failed"}
Ops == {"begin", "write", "parse", "execute", "read", "batch", "commit", "rollback"}

\* The session after a command, the writes it made durable, and whether the response is
\* free of an ErrorResponse.
Result(s, w, ok) == [sess |-> s, commits |-> w, ok |-> ok]

\* An error inside a transaction block aborts the block.
Failed(s) == Result([s EXCEPT !.tx = IF @ = "none" THEN "none" ELSE "failed", !.writes = {}], {}, FALSE)

\* A statement outside a transaction block commits by itself.
Wrote(s, w) ==
  IF s.tx = "open" THEN Result([s EXCEPT !.writes = @ \cup {w}], {}, TRUE)
                   ELSE Result(s, {w}, TRUE)

Ended(s) == [s EXCEPT !.tx = "none", !.writes = {}]

\* A simple query, and a Parse, discard the unnamed statement first.  COMMIT of an aborted
\* block rolls back and reports no error; COMMIT and ROLLBACK outside one only warn.
\* "read" and "batch" are Parse, Bind and Execute in one go, of a SELECT and of a write.
\* `fails` is the server's choice: a constraint, a conflict, a bad statement.
RunCommand(s, cmd, fails) ==
  LET u == [s EXCEPT !.stmt = NoStmt]
      w == <<cmd.by, cmd.n>>
  IN CASE cmd.op = "begin" ->
            IF s.tx = "failed" THEN Failed(u) ELSE Result([u EXCEPT !.tx = "open"], {}, TRUE)
       [] cmd.op = "write" ->
            IF fails \/ s.tx = "failed" THEN Failed(u) ELSE Wrote(u, w)
       [] cmd.op = "parse" ->
            IF fails \/ s.tx = "failed" THEN Failed(u) ELSE Result([s EXCEPT !.stmt = w], {}, TRUE)
       [] cmd.op = "execute" ->
            IF fails \/ s.tx = "failed" \/ s.stmt = NoStmt THEN Failed(s) ELSE Wrote(s, s.stmt)
       [] cmd.op = "read" ->
            IF fails \/ s.tx = "failed" THEN Failed(u) ELSE Result([s EXCEPT !.stmt = w], {}, TRUE)
       [] cmd.op = "batch" ->
            IF fails \/ s.tx = "failed" THEN Failed(u) ELSE Wrote([s EXCEPT !.stmt = w], w)
       [] cmd.op = "commit" ->
            IF s.tx = "open" /\ fails THEN Result(Ended(u), {}, FALSE) ELSE Result(Ended(u), u.writes, TRUE)
       [] cmd.op = "rollback" -> Result(Ended(u), {}, TRUE)

MayFail(op) == op \notin {"begin", "rollback"}
=============================================================================
