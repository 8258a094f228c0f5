---------------------------- MODULE AgentEvents ----------------------------
(***************************************************************************)
(* The bounded in-memory event stream of one agent: class AgentEventStream *)
(* of runtime/events.py.  A stream is a sequence of events in arrival      *)
(* order; append drops the oldest ones beyond MaxEvents.  An event keeps   *)
(* what the rest of the program tells apart: its identifier (the number    *)
(* after the colon of "agent:n"), its type, and the error it carries.      *)
(* Timestamps are left out, and the source is a function of the type.      *)
(***************************************************************************)
EXTENDS Integers, Sequences

CONSTANT MaxEvents          \* the field max_events, 200 in the program

(* __post_init__ refuses any other value. *)
ASSUME MaxEventsPositive == MaxEvents \in Nat \ {0}

(* The last n elements of s, all of them when s is shorter. *)
LastN(s, n) == IF n >= Len(s) THEN s ELSE SubSeq(s, Len(s) - n + 1, Len(s))

StreamAppendTrimsLate(stream, event) ==     \* bug: trims before it appends
    Append(LastN(stream, MaxEvents), event)

StreamAppendDropsNewest(stream, event) ==   \* bug: drops at the wrong end
    IF Len(stream) < MaxEvents THEN Append(stream, event) ELSE stream

(* append: add the event, then delete the overflow from the front. *)
StreamAppend(stream, event) ==
    LET all      == Append(stream, event)
        overflow == Len(all) - MaxEvents
    IN  IF overflow > 0 THEN SubSeq(all, overflow + 1, Len(all)) ELSE all

GetEventsOldest(stream, limit) ==           \* bug: returns the oldest page
    IF limit >= Len(stream) THEN stream
    ELSE IF limit <= 0 THEN << >>
    ELSE SubSeq(stream, 1, limit)

(* get_events: the most recent events, a non-positive limit yields none.   *)
(* The limit None is any limit that the stream does not exceed.            *)
GetEvents(stream, limit) ==
    IF limit >= Len(stream) THEN stream
    ELSE IF limit <= 0 THEN << >>
    ELSE SubSeq(stream, Len(stream) - limit + 1, Len(stream))
=============================================================================
