---------------------------- MODULE SupportDesk ----------------------------
(***************************************************************************)
(* The support bot: one user's ticket, the administrators who take, answer,*)
(* transfer and close it, and the cards of the ticket in their chats.      *)
(*                                                                         *)
(* An operation of the storage is one transaction under the ticket's lock; *)
(* a handler is several of them with calls of Telegram in between, and     *)
(* handlers run concurrently.  So a handler checks one ticket and writes   *)
(* another, and the list of cards it stores is the one it read, less those *)
(* Telegram would not edit.  The conversation state of an administrator    *)
(* (waiting for an answer to type) lives in memory.  An administrator has  *)
(* one handler running at a time.  The event sent to the control bot is    *)
(* not modelled: cooldown and night hours make it no promise.              *)
(***************************************************************************)
EXTENDS Integers, FiniteSets

CONSTANTS
    LastAdmin,        \* administrators 1..LastAdmin, in the order of the settings
    Messages,         \* the user's messages
    MaxActs, MaxFaults, \* bounds of the model
    NoOwner

Admins == 1..LastAdmin
ASSUME SupportAssumption ==
    /\ LastAdmin \in Nat \ {0} /\ NoOwner \notin Admins
    /\ {MaxActs, MaxFaults} \subseteq Nat

VARIABLES
    ticket,      \* [status, owner, cards]; cards: administrators with a card on file
    message,     \* the handler of each message
    desk,        \* the handler of each administrator
    waiting,     \* administrators whose next message is an answer
    heard,       \* messages an administrator was sent a card or a note about
    torn,        \* a stale list of cards was stored over a newer one
    acts, faults
supportVars == <<ticket, message, desk, waiting, heard, torn, acts, faults>>

NoTask == [pc |-> "idle"]
Unread == [status |-> "none", owner |-> NoOwner, cards |-> {}]

Fault(n) == faults' = faults + n /\ faults + n <= MaxFaults

-----------------------------------------------------------------------------
(* The user's message opens the ticket, or opens it again without its      *)
(* owner; cards go to the administrators who had none.                     *)
RegisterUserMessage(m) ==
    /\ message[m].pc = "unsent"
    /\ ticket' = IF ticket.status \in {"none", "closed"}
                 THEN [ticket EXCEPT !.status = "new", !.owner = NoOwner] ELSE ticket
    /\ message' = [message EXCEPT ![m] = [pc |-> "push", todo |-> Admins \ ticket.cards]]
    /\ UNCHANGED <<desk, waiting, heard, torn, acts, faults>>

(* The next card is sent and put on file, or Telegram refuses it.          *)
PushTicketToAdmin(m) ==
    /\ message[m].pc = "push" /\ message[m].todo # {}
    /\ LET a == CHOOSE x \in message[m].todo : \A y \in message[m].todo : x <= y
       IN  /\ message' = [message EXCEPT ![m].todo = @ \ {a}]
           /\ \/ /\ ticket' = [ticket EXCEPT !.cards = @ \union {a}]
                 /\ heard' = heard \union {m} /\ UNCHANGED faults
              \/ Fault(1) /\ UNCHANGED <<ticket, heard>>
    /\ UNCHANGED <<desk, waiting, torn, acts>>

ReadTicket(m) ==
    /\ message[m].pc = "push" /\ message[m].todo = {}
    /\ message' = [message EXCEPT ![m] = [pc |-> "refresh", cards |-> ticket.cards]]
    /\ UNCHANGED <<ticket, desk, waiting, heard, torn, acts, faults>>

(* Storing the cards of a snapshot that Telegram could still edit.         *)
ReplaceAdminCards(snapshot) ==
    \E gone \in SUBSET snapshot :
        /\ Fault(Cardinality(gone))
        /\ ticket' = [ticket EXCEPT !.cards = snapshot \ gone]
        /\ torn' = (torn \/ ~(ticket.cards \subseteq snapshot))

RefreshForMessage(m) ==
    /\ message[m].pc = "refresh"
    /\ ReplaceAdminCards(message[m].cards)
    /\ message' = [message EXCEPT ![m] = [pc |-> "notify"]]
    /\ UNCHANGED <<desk, waiting, heard, acts>>

(* The owner is told; without one everybody, unless no card is on file.    *)
TargetsIfCarded ==
    IF ticket.cards = {} \/ ticket.owner = NoOwner THEN {} ELSE {ticket.owner}
Targets ==
    IF ticket.owner # NoOwner THEN {ticket.owner}
    ELSE IF ticket.cards = {} THEN {} ELSE Admins
NotifyAdmins(m) ==
    /\ message[m].pc = "notify"
    /\ \E refused \in SUBSET Targets :
         /\ Fault(Cardinality(refused))
         /\ heard' = IF Targets = refused THEN heard ELSE heard \union {m}
    /\ message' = [message EXCEPT ![m] = [pc |-> "accepted"]]
    /\ UNCHANGED <<ticket, desk, waiting, torn, acts>>

-----------------------------------------------------------------------------
(* A handler of an administrator: the ticket is read and judged, then      *)
(* written in another transaction.                                         *)
Start(a, act, to, allowed) ==
    /\ desk[a] = NoTask /\ acts < MaxActs /\ ticket.status # "none"
    /\ allowed
    /\ acts' = acts + 1
    /\ desk' = [desk EXCEPT ![a] = [pc |-> "write", act |-> act, to |-> to,
                                     saw |-> [status |-> ticket.status, owner |-> ticket.owner]]]
    /\ UNCHANGED <<ticket, message, waiting, heard, torn, faults>>

MayHandleOpen(a) == ticket.status # "closed"
MayHandle(a) == ticket.status # "closed" /\ ticket.owner \in {NoOwner, a}
SupportTake(a) == Start(a, "take", a, MayHandle(a))
SupportReply(a) == Start(a, "reply", a, MayHandle(a))
SupportClose(a) == Start(a, "close", a, MayHandle(a))
SupportTransferTo(a, b) == a # b /\ Start(a, "transfer", b, ticket.owner = a)
(* An answer to a card in the chat, and an answer typed after "reply": the *)
(* second does not ask whether the ticket is closed.                       *)
AnswerCard(a) == a \notin waiting /\ Start(a, "answer", a, MayHandle(a))
AdminReplyInput(a) == a \in waiting /\ Start(a, "input", a, ticket.owner \in {NoOwner, a})
AdminReplyRefused(a) ==
    /\ a \in waiting /\ desk[a] = NoTask /\ ticket.owner \notin {NoOwner, a}
    /\ waiting' = waiting \ {a}
    /\ UNCHANGED <<ticket, message, desk, heard, torn, acts, faults>>
CancelReply(a) ==
    /\ a \in waiting /\ desk[a] = NoTask
    /\ waiting' = waiting \ {a}
    /\ UNCHANGED <<ticket, message, desk, heard, torn, acts, faults>>

(* The handler goes on with the cards of the ticket it has just written.   *)
Written(a, act) == [desk EXCEPT ![a] = [pc |-> "cards", act |-> act, cards |-> ticket.cards,
                                        to |-> IF act = "transfer" THEN desk[a].to ELSE a]]
Owned(a) == [status |-> "in_progress", owner |-> a]

(* take, reply and the first half of an answer to a card                   *)
AssignTicket(a) ==
    /\ desk[a].pc = "write" /\ desk[a].act \in {"take", "reply", "answer"}
    /\ ticket' = [ticket EXCEPT !.status = "in_progress", !.owner = a]
    /\ desk' = Written(a, desk[a].act)
    /\ UNCHANGED <<message, waiting, heard, torn, acts, faults>>
TransferTicket(a) ==
    /\ desk[a].pc = "write" /\ desk[a].act = "transfer"
    /\ ticket' = [ticket EXCEPT !.status = "in_progress", !.owner = desk[a].to]
    /\ desk' = Written(a, desk[a].act)
    /\ UNCHANGED <<message, waiting, heard, torn, acts, faults>>
CloseTicket(a) ==
    /\ desk[a].pc = "write" /\ desk[a].act = "close"
    /\ ticket' = [ticket EXCEPT !.status = "closed"]
    /\ desk' = Written(a, desk[a].act)
    /\ UNCHANGED <<message, waiting, heard, torn, acts, faults>>

(* The answer goes to the user and is registered, or Telegram refuses it.  *)
SendAdminReply(a) ==
    /\ \/ desk[a].pc = "write" /\ desk[a].act = "input"
       \/ desk[a].pc = "send"
    /\ \/ desk' = [desk EXCEPT ![a].pc = "register"] /\ UNCHANGED <<waiting, faults>>
       \/ /\ Fault(1)
          /\ desk' = [desk EXCEPT ![a] = NoTask]
          /\ waiting' = waiting \ {a}
    /\ UNCHANGED <<ticket, message, heard, torn, acts>>
RegisterAdminReply(a) ==
    /\ desk[a].pc = "register"
    /\ ticket' = [ticket EXCEPT !.status = "in_progress", !.owner = a]
    /\ desk' = Written(a, "answered")
    /\ UNCHANGED <<message, waiting, heard, torn, acts, faults>>

(* The cards of the ticket as this handler last saw it are stored; a reply *)
(* waits for its text, a transfer sends a card to the new owner.           *)
RefreshAdminCards(a) ==
    /\ desk[a].pc = "cards"
    /\ ReplaceAdminCards(desk[a].cards)
    /\ LET act == desk[a].act
       IN  /\ desk' = CASE act = "answer" -> [desk EXCEPT ![a] = [pc |-> "send", act |-> act, saw |-> Owned(a)]]
                        [] act = "transfer" -> [desk EXCEPT ![a] = [pc |-> "tell", to |-> desk[a].to]]
                        [] OTHER -> [desk EXCEPT ![a] = NoTask]
           /\ waiting' = CASE act = "reply" -> waiting \union {a}
                           [] act = "answered" -> waiting \ {a}
                           [] OTHER -> waiting
    /\ UNCHANGED <<message, heard, acts>>
NotifyAdminTransfer(a) ==
    /\ desk[a].pc = "tell"
    /\ desk' = [desk EXCEPT ![a] = NoTask]
    /\ \/ ticket' = [ticket EXCEPT !.cards = @ \union {desk[a].to}] /\ UNCHANGED faults
       \/ Fault(1) /\ UNCHANGED ticket
    /\ UNCHANGED <<message, waiting, heard, torn, acts>>

(* The bot dies with its handlers and its memory of who was answering.     *)
RestartSupportBot ==
    /\ Fault(1)
    /\ message' = [m \in Messages |->
           IF message[m].pc \in {"unsent", "accepted"} THEN message[m] ELSE [pc |-> "dropped"]]
    /\ desk' = [a \in Admins |-> NoTask]
    /\ waiting' = {}
    /\ UNCHANGED <<ticket, heard, torn, acts>>

-----------------------------------------------------------------------------
SupportInit ==
    /\ ticket = Unread
    /\ message = [m \in Messages |-> [pc |-> "unsent"]]
    /\ desk = [a \in Admins |-> NoTask]
    /\ waiting = {} /\ heard = {} /\ torn = FALSE /\ acts = 0 /\ faults = 0

SupportNext ==
    \/ \E m \in Messages :
         \/ RegisterUserMessage(m) \/ PushTicketToAdmin(m) \/ ReadTicket(m)
         \/ RefreshForMessage(m) \/ NotifyAdmins(m)
    \/ \E a \in Admins :
         \/ SupportTake(a) \/ SupportReply(a) \/ SupportClose(a)
         \/ \E b \in Admins : SupportTransferTo(a, b)
         \/ AnswerCard(a) \/ AdminReplyInput(a) \/ AdminReplyRefused(a) \/ CancelReply(a)
         \/ AssignTicket(a) \/ TransferTicket(a) \/ CloseTicket(a)
         \/ SendAdminReply(a) \/ RegisterAdminReply(a)
         \/ RefreshAdminCards(a) \/ NotifyAdminTransfer(a)
    \/ RestartSupportBot

SupportSpec == SupportInit /\ [][SupportNext]_supportVars

-----------------------------------------------------------------------------
Acting(a) == desk[a].pc \in {"write", "register"} /\ desk'[a] # desk[a]
OwnerIsAsked ==
    ticket.status # "closed" /\ ticket.owner \in Admins /\ ticket'.owner # ticket.owner =>
        \E a \in Admins : Acting(a) /\ (desk[a].saw.owner # ticket.owner \/ desk[a].act = "transfer")
ClosedIsKept ==
    ticket.status = "closed" /\ ticket'.status # "closed" =>
        \/ \E m \in Messages : message[m].pc = "unsent" /\ message'[m].pc = "push"
        \/ \E a \in Admins : Acting(a) /\ (\/ desk[a].saw.status # "closed"
                                            \/ desk[a].act \in {"transfer", "input"})

(* An open ticket leaves its owner only by the owner's transfer or by a    *)
(* handler that had read it with another owner, and a closed ticket is     *)
(* opened only by its user, by a handler that had read it open, by a       *)
(* transfer or by an answer typed before it was closed.                    *)
OwnersAreAsked == [][OwnerIsAsked /\ ClosedIsKept]_supportVars

(* A message the user is told was passed on has reached the chat of an     *)
(* administrator, as long as the bot has met neither a refused call nor a  *)
(* restart so far (faults counts both, whichever message they concern),    *)
(* and no handler stored a stale list of cards over the one that had them. *)
(* A handler that raises by itself at the edit of a card is not modelled   *)
(* apart: it stops where the restart of the whole bot stops it.            *)
MessagesAreHeard ==
    \A m \in Messages : message[m].pc = "accepted" => m \in heard \/ faults > 0 \/ torn
=============================================================================
