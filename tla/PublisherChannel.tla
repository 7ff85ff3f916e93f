-------------------------- MODULE PublisherChannel --------------------------
(***************************************************************************)
(* One publisher process and its AMQP channel in confirm mode:             *)
(* rabbitmq.Client.Publish called by outbox.Service.Run. Messages are      *)
(* published mandatory and persistent, one at a time; the n-th call of     *)
(* Publish sends message n. The broker answers a routed message with an    *)
(* ack or a nack, and one it cannot route with basic.return and then an    *)
(* ack. The client library copies these frames, in order, into the two Go  *)
(* channels confirms and returns, each with room for one.                  *)
(***************************************************************************)
EXTENDS Integers, Sequences

CONSTANT MaxPublishes    \* bound: calls of Publish in one run

ASSUME MaxPublishesAssumption == MaxPublishes \in Nat

VARIABLES
    calling,     \* "ready" to publish, "select", "check" returns, "exited"
    sent,        \* number of messages sent
    inbox,       \* messages the broker has not looked at yet
    frames,      \* the broker's answers on their way to the client
    confirms,    \* the Go channel client.confirms
    returns,     \* the Go channel client.returns
    open,        \* the connection is up
    stored,      \* messages the queue stored
    confirmed    \* messages whose Publish returned nil

channelVars == <<calling, sent, inbox, frames, confirms, returns, open, stored, confirmed>>

ChannelInit ==
    /\ calling = "ready"
    /\ sent = 0
    /\ inbox = <<>>
    /\ frames = <<>>
    /\ confirms = <<>>
    /\ returns = <<>>
    /\ open = TRUE
    /\ stored = {}
    /\ confirmed = {}

-----------------------------------------------------------------------------
(* Client.Publish *)

Send ==
    /\ calling = "ready"
    /\ open
    /\ sent < MaxPublishes
    /\ sent' = sent + 1
    /\ inbox' = Append(inbox, sent + 1)
    /\ calling' = "select"
    /\ UNCHANGED <<frames, confirms, returns, open, stored, confirmed>>

(* PublishWithContext fails on a closed connection. *)
SendFails ==
    /\ calling = "ready"
    /\ ~open
    /\ calling' = "exited"
    /\ UNCHANGED <<sent, inbox, frames, confirms, returns, open, stored, confirmed>>

(* Mutant: Run logs the error and goes on. *)
AfterErrorGoOn == "ready"

(* An error of RunOnce makes Run return and the process exit: whatever is  *)
(* left in the channels is never read.                                     *)
AfterError == "exited"

(* The select: a return, a confirmation, a closed channel or the context.  *)
TakeReturn ==
    /\ calling = "select"
    /\ returns # <<>>
    /\ returns' = Tail(returns)
    /\ calling' = AfterError
    /\ UNCHANGED <<sent, inbox, frames, confirms, open, stored, confirmed>>

TakeConfirm ==
    /\ calling = "select"
    /\ confirms # <<>>
    /\ confirms' = Tail(confirms)
    /\ calling' = IF Head(confirms) = "ack" THEN "check" ELSE AfterError
    /\ UNCHANGED <<sent, inbox, frames, returns, open, stored, confirmed>>

GiveUpOnConfirm ==
    /\ calling = "select"
    /\ calling' = AfterError
    /\ UNCHANGED <<sent, inbox, frames, confirms, returns, open, stored, confirmed>>

(* Mutant: the confirmation alone decides. *)
CheckNothing ==
    /\ calling = "check"
    /\ confirmed' = confirmed \cup {sent}
    /\ calling' = "ready"
    /\ UNCHANGED <<sent, inbox, frames, confirms, returns, open, stored>>

(* The non-blocking look at returns after an ack; with the connection the  *)
(* library closes the channel, which reads as a returned message.          *)
CheckReturns ==
    /\ calling = "check"
    /\ \/ /\ returns # <<>>
          /\ returns' = Tail(returns)
          /\ calling' = AfterError
          /\ UNCHANGED confirmed
       \/ /\ returns = <<>> /\ ~open
          /\ calling' = AfterError
          /\ UNCHANGED <<returns, confirmed>>
       \/ /\ returns = <<>>
          /\ confirmed' = confirmed \cup {sent}
          /\ calling' = "ready"
          /\ UNCHANGED returns
    /\ UNCHANGED <<sent, inbox, frames, confirms, open, stored>>

-----------------------------------------------------------------------------
(* External: the broker and the client library. *)

BrokerRoutes ==
    /\ inbox # <<>>
    /\ inbox' = Tail(inbox)
    /\ \/ /\ stored' = stored \cup {Head(inbox)}
          /\ frames' = Append(frames, "ack")
       \/ /\ stored' = stored
          /\ frames' = Append(frames, "nack")
    /\ UNCHANGED <<calling, sent, confirms, returns, open, confirmed>>

BrokerReturns ==
    /\ inbox # <<>>
    /\ inbox' = Tail(inbox)
    /\ frames' = frames \o <<"return", "ack">>
    /\ UNCHANGED <<calling, sent, confirms, returns, open, stored, confirmed>>

(* A full Go channel blocks the reader of the connection. *)
DispatchFrame ==
    /\ open
    /\ frames # <<>>
    /\ frames' = Tail(frames)
    /\ \/ /\ Head(frames) = "return"
          /\ returns = <<>>
          /\ returns' = <<"return">>
          /\ UNCHANGED confirms
       \/ /\ Head(frames) # "return"
          /\ confirms = <<>>
          /\ confirms' = <<Head(frames)>>
          /\ UNCHANGED returns
    /\ UNCHANGED <<calling, sent, inbox, open, stored, confirmed>>

(* Frames on their way are lost, and so may be messages. *)
ConnectionLost ==
    /\ open
    /\ open' = FALSE
    /\ frames' = <<>>
    /\ inbox' \in {inbox, <<>>}
    /\ UNCHANGED <<calling, sent, confirms, returns, stored, confirmed>>

ChannelNext ==
    \/ Send \/ SendFails \/ TakeReturn \/ TakeConfirm \/ GiveUpOnConfirm
    \/ CheckReturns
    \/ BrokerRoutes \/ BrokerReturns \/ DispatchFrame \/ ConnectionLost

ChannelSpec == ChannelInit /\ [][ChannelNext]_channelVars

-----------------------------------------------------------------------------
(* Properties. *)

(* MarkPublished follows a nil error, so nil has to mean that the queue    *)
(* stored this very message: no ack of an unroutable message and no ack    *)
(* left over from an earlier call is taken for it.                         *)
ConfirmedMeansStored == confirmed \subseteq stored

(* Between two calls the channels are empty: an answer is always the       *)
(* answer to the call that waits for it.                                   *)
NoAnswerLeftOver ==
    calling = "ready" => inbox = <<>> /\ frames = <<>> /\ confirms = <<>> /\ returns = <<>>
=============================================================================
