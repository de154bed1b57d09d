----------------------------- MODULE ExternalChat -----------------------------
(***************************************************************************)
(* The Telegram webhook of http.rs: updates posted at least once, each     *)
(* handled by a call that reads the binding of the agent its route token   *)
(* names, checks the sender, claims the receipt, and has the agent answer, *)
(* while the operator changes the binding or moves the token.              *)
(*                                                                         *)
(* Chat and user are one sender: the allowlist names one of each.  The     *)
(* secret header is right, or the call ends where it resolves.             *)
(***************************************************************************)
EXTENDS Integers, FiniteSets

CONSTANTS
  Contact,    \* agents with a Telegram binding
  Update,     \* updates: [sender, message], message the id or NoMessage
  NoMessage,  \* neither message_id nor update_id
  Nobody,     \* an empty allowlist
  Hook,    \* webhook calls that may be under way
  MaxPosts,   \* bound: posts of Telegram
  MaxBinds,   \* bound: changes of a binding
  MaxStops    \* bound: stops of the kernel

ASSUME ChatAssumption ==
  /\ \A u \in Update : u = [sender |-> u.sender, message |-> u.message]
  /\ MaxPosts \in Nat /\ MaxBinds \in Nat /\ MaxStops \in Nat

VARIABLES
  binding,   \* rows of external_channel_bindings
  tokenHolder,    \* the agent whose bot_token is the route token
  receipts,  \* rows of external_message_receipts
  sessions,  \* rows of external_chat_sessions: [agent, sender]
  talk,      \* messages of SAIRGENT_WEBHOOK_MODE: [agent, update, role] -> how many
  events,    \* rows of external_channel_delivery_events: [agent, update, status]
  handling,  \* where each call is
  posts, binds, stops,
  cutOff,    \* history: updates whose call ended before it was answered or failed
  unlogged   \* history: updates whose call could not write its outbound event

chatVars == <<binding, tokenHolder, receipts, sessions, talk, events, handling,
              posts, binds, stops, cutOff, unlogged>>
chatCounts == <<posts, binds, stops>>

NoUpdate == [at |-> "free"]
Sender == {u.sender : u \in Update}
Binding == [enabled : BOOLEAN, allowed : Sender \cup {Nobody}]
ReceiptKey(u) == <<u.sender, u.message>>
Busy == {"claim", "touch", "receive", "hear", "answer", "reply", "deliver", "fail"}

ChatInit ==
  /\ \E s \in Sender :
       binding = [a \in Contact |-> [enabled |-> TRUE, allowed |-> s]]
  /\ tokenHolder \in Contact
  /\ receipts = {} /\ sessions = {} /\ events = {}
  /\ talk = [k \in Contact \X Update \X {"user", "assistant"} |-> 0]
  /\ handling = [h \in Hook |-> NoUpdate]
  /\ posts = 0 /\ binds = 0 /\ stops = 0 /\ cutOff = {} /\ unlogged = {}

-----------------------------------------------------------------------------
CallGoes(h, at) == handling' = [handling EXCEPT ![h].at = at]
CallEnds(h) == handling' = [handling EXCEPT ![h] = NoUpdate]
HookAt(h, at) == handling[h].at = at
Event(h, status) == [agent |-> handling[h].agent, update |-> handling[h].update,
                     status |-> status]
CutsOff(h) == cutOff' = cutOff \cup {ReceiptKey(handling[h].update)}

(* record_external_channel_delivery_event, whose error every caller ignores. *)
LogEvent(event) == events' = events \cup {event} \/ UNCHANGED events

(* The same, and the outbound event of a call is its last trace. *)
LogOutbound(h, status) ==
  \/ events' = events \cup {Event(h, status)} /\ UNCHANGED unlogged
  \/ unlogged' = unlogged \cup {ReceiptKey(handling[h].update)} /\ UNCHANGED events

(* resolve_external_channel_binding_by_route_token, the secret, enabled, and
   the allowlist of the row as it was read: an empty allowlist allows nobody. *)
Allows(b, u) == b.allowed = u.sender

ResolveRoute(h, u) ==
  /\ handling[h] = NoUpdate /\ posts < MaxPosts /\ posts' = posts + 1
  /\ binding[tokenHolder].enabled
  /\ IF Allows(binding[tokenHolder], u)
     THEN /\ handling' = [handling EXCEPT ![h] = [at |-> "claim", update |-> u, agent |-> tokenHolder]]
          /\ UNCHANGED events
     ELSE /\ LogEvent([agent |-> tokenHolder, update |-> u, status |-> "unauthorized"])
          /\ UNCHANGED handling
  /\ UNCHANGED <<binding, tokenHolder, receipts, sessions, talk, binds, stops, cutOff, unlogged>>

(* claim_external_message_receipt: INSERT OR IGNORE under (channel, chat,
   message); an update without any id is not claimed.  An error of the claim ends
   the call with no receipt. *)
MutClaims(h, u) ==
  \A e \in events : e.update = u /\ e.status # "unauthorized" => e.agent # handling[h].agent
Claims(h, u) == ReceiptKey(u) \notin receipts

ClaimReceipt(h) ==
  /\ HookAt(h, "claim")
  /\ LET u == handling[h].update IN
     \/ /\ u.message # NoMessage /\ ~Claims(h, u)
        /\ LogEvent(Event(h, "duplicate")) /\ CallEnds(h) /\ UNCHANGED receipts
     \/ /\ u.message # NoMessage
        /\ CallEnds(h) /\ UNCHANGED <<receipts, events>>
     \/ /\ u.message # NoMessage /\ Claims(h, u)
        /\ receipts' = receipts \cup {ReceiptKey(u)} /\ CallGoes(h, "touch") /\ UNCHANGED events
     \/ /\ u.message = NoMessage
        /\ CallGoes(h, "touch") /\ UNCHANGED <<receipts, events>>
  /\ UNCHANGED <<binding, tokenHolder, sessions, talk, chatCounts, cutOff, unlogged>>

(* touch_external_chat_session: one session per agent, chat and user.  Its error
   is returned through ?, after the receipt was claimed. *)
Touch(h) ==
  /\ HookAt(h, "touch")
  /\ \/ /\ sessions' = sessions \cup {[agent |-> handling[h].agent,
                                       sender |-> handling[h].update.sender]}
        /\ CallGoes(h, "receive") /\ UNCHANGED cutOff
     \/ CutsOff(h) /\ CallEnds(h) /\ UNCHANGED sessions
  /\ UNCHANGED <<binding, tokenHolder, receipts, talk, events, chatCounts, unlogged>>

Receive(h) ==
  /\ HookAt(h, "receive")
  /\ LogEvent(Event(h, "received")) /\ CallGoes(h, "hear")
  /\ UNCHANGED <<binding, tokenHolder, receipts, sessions, talk, chatCounts, cutOff, unlogged>>

(* run_external_sairgent_chat: the user's message is stored, the agent answers,
   its message is stored; each may fail. *)
Says(h, role) == talk' = [talk EXCEPT ![<<handling[h].agent, handling[h].update, role>>] = @ + 1]

Hear(h) ==
  /\ HookAt(h, "hear")
  /\ \/ /\ Says(h, "user") /\ CallGoes(h, "answer")
     \/ CallGoes(h, "fail") /\ UNCHANGED talk
  /\ UNCHANGED <<binding, tokenHolder, receipts, sessions, events, chatCounts, cutOff, unlogged>>

(* run_sairgent_chat answers by rule when the worker fails; the readings before
   it may fail. *)
Answer(h) ==
  /\ HookAt(h, "answer")
  /\ CallGoes(h, "reply") \/ CallGoes(h, "fail")
  /\ UNCHANGED <<binding, tokenHolder, receipts, sessions, talk, events, chatCounts, cutOff, unlogged>>

Reply(h) ==
  /\ HookAt(h, "reply")
  /\ \/ Says(h, "assistant") /\ CallGoes(h, "deliver")
     \/ CallGoes(h, "fail") /\ UNCHANGED talk
  /\ UNCHANGED <<binding, tokenHolder, receipts, sessions, events, chatCounts, cutOff, unlogged>>

Deliver(h) ==
  /\ HookAt(h, "deliver") /\ LogOutbound(h, "delivered") /\ CallEnds(h)
  /\ UNCHANGED <<binding, tokenHolder, receipts, sessions, talk, chatCounts, cutOff>>

(* Mutant: no event of a failed chat. *)
MutFails(h) == CallEnds(h) /\ UNCHANGED <<events, unlogged>>
Fails(h) == LogOutbound(h, "failed") /\ CallEnds(h)
FailCall(h) ==
  /\ HookAt(h, "fail") /\ Fails(h)
  /\ UNCHANGED <<binding, tokenHolder, receipts, sessions, talk, chatCounts, cutOff>>

(* Telegram hangs up while the agent answers: the server drops the call where it
   waits, the only place where it does. *)
HangUp(h) ==
  /\ HookAt(h, "answer")
  /\ CutsOff(h) /\ CallEnds(h)
  /\ UNCHANGED <<binding, tokenHolder, receipts, sessions, talk, events, chatCounts, unlogged>>

-----------------------------------------------------------------------------
(* upsert_external_channel_binding: the row, then the token, without a
   transaction.  A token another agent holds is refused by its unique index when
   the row is changed already: the same change, and an error. *)
BindChannel(a, b) ==
  /\ binds < MaxBinds /\ binds' = binds + 1
  /\ b # binding[a] /\ binding' = [binding EXCEPT ![a] = b]
  /\ UNCHANGED <<tokenHolder, receipts, sessions, talk, events, handling, posts, stops, cutOff, unlogged>>

(* bind_agent_token twice: off the agent that has it, on to another. *)
MoveToken(a) ==
  /\ binds < MaxBinds /\ binds' = binds + 1
  /\ a # tokenHolder /\ tokenHolder' = a
  /\ UNCHANGED <<binding, receipts, sessions, talk, events, handling, posts, stops, cutOff, unlogged>>

(* The kernel stops: calls end where they are. *)
StopHooks ==
  /\ stops < MaxStops /\ stops' = stops + 1
  /\ cutOff' = cutOff \cup {ReceiptKey(handling[h].update) : h \in {g \in Hook : handling[g] # NoUpdate}}
  /\ handling' = [h \in Hook |-> NoUpdate]
  /\ UNCHANGED <<binding, tokenHolder, receipts, sessions, talk, events, posts, binds, unlogged>>

ChatNext ==
  \/ \E h \in Hook :
       \/ \E u \in Update : ResolveRoute(h, u)
       \/ ClaimReceipt(h) \/ Touch(h) \/ Receive(h) \/ Hear(h)
       \/ Answer(h) \/ Reply(h) \/ Deliver(h) \/ FailCall(h) \/ HangUp(h)
  \/ \E a \in Contact :
       MoveToken(a) \/ \E b \in Binding : BindChannel(a, b)
  \/ StopHooks

ChatSpec == ChatInit /\ [][ChatNext]_chatVars

-----------------------------------------------------------------------------
(* Types of the variables. *)
ChatTypeOK ==
  /\ binding \in [Contact -> Binding] /\ tokenHolder \in Contact
  /\ receipts \cup cutOff \cup unlogged \subseteq {ReceiptKey(u) : u \in Update}
  /\ sessions \subseteq [agent : Contact, sender : Sender]
  /\ talk \in [Contact \X Update \X {"user", "assistant"} -> Nat]
  /\ events \subseteq [agent : Contact, update : Update,
                       status : {"unauthorized", "duplicate", "received", "delivered", "failed"}]
  /\ \A h \in Hook :
       handling[h] = NoUpdate \/ handling[h] \in [at : Busy, update : Update, agent : Contact]
  /\ posts \in 0..MaxPosts /\ binds \in 0..MaxBinds /\ stops \in 0..MaxStops

(* An update with an id is heard by one agent, once, whatever Telegram repeats,
   whichever calls run side by side, and though the token moved to another
   agent between two of its deliveries. *)
HeardOnce ==
  \A u \in Update : u.message # NoMessage =>
    \A a, b \in Contact :
      /\ talk[<<a, u, "user">>] <= 1
      /\ talk[<<a, u, "user">>] = 1 /\ talk[<<b, u, "user">>] = 1 => a = b

(* The receipt of a claimed update answers every repetition with "duplicate", so
   a call that ends quietly loses the update.  Behind its claim a call ends so
   only by an error of the session's row, with the kernel or with the connection,
   all of them before the answer is known; a call that comes to its answer or its
   failure has the outbound event, or tried to write it and could not. *)
ClaimedIsSettled ==
  \A u \in Update :
    ReceiptKey(u) \in receipts =>
      \/ \E h \in Hook : handling[h] # NoUpdate /\ handling[h].update = u
      \/ \E e \in events : e.update = u /\ e.status \in {"delivered", "failed"}
      \/ ReceiptKey(u) \in cutOff \cup unlogged
=============================================================================
