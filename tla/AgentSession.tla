---------------------------- MODULE AgentSession ----------------------------
(***************************************************************************)
(* What a card of the Agents view promises of its session (model/session): *)
(*                                                                         *)
(*   starting -> working <-> waiting -> finished | closed                  *)
(*                                                                         *)
(* "Waiting" tells that the agent needs the user; "failed" is a finished   *)
(* of its own name.  Attention is news that the user did not look at yet,  *)
(* set on the way to waiting and finished.  A session whose terminal is    *)
(* gone has nothing to stop; only a new run gives it a terminal again.     *)
(*                                                                         *)
(* AgentTerminals implements this for every session.                       *)
(***************************************************************************)
CONSTANT NoCard

VARIABLE card   \* one session: state, attention, gone; NoCard before and after

State == {"starting", "working", "waiting", "finished", "closed"}
Live  == {"starting", "working", "waiting"}

Card == [state : State, attention : BOOLEAN, gone : BOOLEAN]

IsLive(c) == c # NoCard /\ c.state \in Live

Init == card = NoCard

\* A session is started for a profile, or adopted while its agent runs already.
Appear ==
    /\ card = NoCard
    /\ card' \in [state : {"starting", "working"}, attention : {FALSE}, gone : {FALSE}]

\* The agent runs, or works again.  There is no news in that.
Work ==
    /\ IsLive(card)
    /\ card.state # "working"
    /\ card' = [card EXCEPT !.state = "working", !.attention = FALSE]

\* The turn of the agent is over: news, unless the user is looking.
Wait ==
    /\ IsLive(card)
    /\ card.state # "waiting"
    /\ \E news \in BOOLEAN : card' = [card EXCEPT !.state = "waiting", !.attention = news]

\* The agent exited: news as well.
Exit ==
    /\ IsLive(card)
    /\ \E news \in BOOLEAN : card' = [card EXCEPT !.state = "finished", !.attention = news]

\* The terminal went away.  A session that is over keeps its result.
Close ==
    /\ card # NoCard
    /\ ~card.gone
    /\ \E news \in {FALSE, card.attention /\ ~IsLive(card)} :
          card' = [state |-> IF IsLive(card) THEN "closed" ELSE card.state,
                   attention |-> news, gone |-> TRUE]

\* The user looks at it.
See ==
    /\ card # NoCard
    /\ card' = [card EXCEPT !.attention = FALSE]

\* A new run in the same card, which may be known to run at once.
Restart ==
    /\ card # NoCard
    /\ card' \in [state : {"starting", "working"}, attention : {FALSE}, gone : {FALSE}]

Dismiss == card # NoCard /\ card' = NoCard

Next == Appear \/ Work \/ Wait \/ Exit \/ Close \/ See \/ Restart \/ Dismiss

Spec == Init /\ [][Next]_card
=============================================================================
