----------------------------- MODULE Execution -----------------------------
(* One command at a time runs against the database, from the lookup in       *)
(* cmd::Registry to the reply (processCommands, src/net/Connection.cpp).     *)
(* The process is single-threaded, so a command is one step.  Time does pass *)
(* inside it: every look at the database reads system_clock again, and a     *)
(* deadline may fall between two readings of one command.  The clock never   *)
(* runs backwards here.                                                      *)
EXTENDS Database

CONSTANTS Registered,   \* the command names this instance serves
          MaxTime       \* bound: the last clock reading

ASSUME MaxTimeAssumption == MaxTime \in Nat /\ MaxTime <= LLMax

VARIABLES data,    \* Database::data_
          clock,   \* the latest reading of system_clock, in milliseconds
          last,    \* history: the last command and its reply
          up       \* FALSE once the process died on a null Object pointer

vars == <<data, clock, last, up>>

NoReply == <<"no reply">>

Init == /\ data = [k \in {} |-> 0]
        /\ clock = 0
        /\ last = [call |-> <<"none">>, reply |-> NoReply]
        /\ up = TRUE

(* The n clock readings of one command, in the order they are made. *)
Later == clock..MaxTime
Readings(n) == {t \in [1..n -> Later] : \A i, j \in 1..n : i <= j => t[i] <= t[j]}

(* Registry::getCommand found the command. *)
Runs(name) == up /\ name \in Registered

(* The command ends at time t: it leaves store d behind and sends a reply. *)
Done(call, t, d, reply) ==
  /\ data' = d
  /\ clock' = t
  /\ last' = [call |-> call, reply |-> reply]
  /\ UNCHANGED up

(* get() returned nullptr to a handler that dereferences it. *)
NullDereference(call, t, d) ==
  /\ data' = d
  /\ clock' = t
  /\ last' = [call |-> call, reply |-> NoReply]
  /\ up' = FALSE

-----------------------------------------------------------------------------
(* Commands that are refused before they look at the database: the name is   *)
(* not registered, or the argument count is wrong for it.                    *)
UnknownCommand(name) ==
  /\ up /\ name \notin Registered
  /\ \E t \in Later : Done(<<"unknown", name>>, t, data, ErrReply("unknown command"))

WrongArity(name) ==
  /\ Runs(name)
  /\ \E t \in Later : Done(<<"arity", name>>, t, data, ErrReply("wrong number of arguments"))

-----------------------------------------------------------------------------
(* src/cmd/base.cpp *)
Ping(args) ==
  /\ Runs("PING")
  /\ \E t \in Later : Done(<<"PING", args>>, t, data,
                           IF args = <<>> THEN SimpleReply("PONG") ELSE BulkReply(args[1]))

Echo(s) ==
  /\ Runs("ECHO")
  /\ \E t \in Later : Done(<<"ECHO", s>>, t, data, BulkReply(s))

Time ==
  /\ Runs("TIME")
  /\ \E t \in Later : Done(<<"TIME">>, t, data, <<"time", t>>)

FlushDb ==
  /\ Runs("FLUSHDB")
  /\ \E t \in Later : Done(<<"FLUSHDB">>, t, [k \in {} |-> 0], OkReply)
=============================================================================
