---------------------------- MODULE ChannelPosts ----------------------------
(***************************************************************************)
(* The channel's content plan: an item is generated by a model, edited,    *)
(* approved or rejected by an administrator and published by a button, by  *)
(* an automation's pass over the due items or by its retry of a failed     *)
(* one.  Each transaction locks the item's row; the call of the model or   *)
(* of Telegram comes between two of them and holds no lock, so the status  *)
(* is what keeps others away.                                              *)
(*                                                                         *)
(* A text is a number; the check of its wording passes.  Touches of the    *)
(* button under a post and events to administrators are left out.          *)
(***************************************************************************)
EXTENDS Integers, Sequences, SequencesExt, FiniteSets

CONSTANTS
    Items,
    Runners,                          \* handlers of the control bot and the dashboard
    MaxTexts, MaxRuns, MaxPostFaults  \* bounds of the model

ASSUME ChannelAssumption ==
    Items \subseteq Nat /\ {MaxTexts, MaxRuns, MaxPostFaults} \subseteq Nat

VARIABLES
    item,        \* [status, body] of each item; body 0 is none
    runner,      \* the task of each handler
    posts,       \* what the channel got of each item: <<text, how>>
    approved,    \* <<item, text>> pairs an administrator has approved
    unanswered,  \* posts of each item Telegram made but did not confirm
    texts, runs, postFaults
channelVars == <<item, runner, posts, approved, unanswered, texts, runs, postFaults>>

Off == [pc |-> "idle"]
AllowedTransitions ==
    [queued     |-> {"generating", "rejected", "draft"},
     generating |-> {"draft", "failed"},
     draft      |-> {"approved", "rejected", "generating"},
     approved   |-> {"publishing", "draft", "rejected"},
     publishing |-> {"published", "failed"},
     published  |-> {},
     rejected   |-> {"generating", "draft"},
     failed     |-> {"generating", "draft", "publishing", "rejected"}]
MayBecome(i, status) == status \in AllowedTransitions[item[i].status] \union {item[i].status}
Set(i, status) == item' = [item EXCEPT ![i].status = status]

-----------------------------------------------------------------------------
(* The administrator's buttons, a transaction each.                        *)
CreateItem(i) ==
    /\ item[i].status = "none" /\ Set(i, "queued")
    /\ UNCHANGED <<runner, posts, approved, unanswered, texts, runs, postFaults>>

(* A new text takes an approval away.                                      *)
EditedInPlace(i, body) == [item[i] EXCEPT !.body = body]
Edited(i, body) == [status |-> "draft", body |-> body]
UpdateBody(i) ==
    /\ item[i].status \notin {"none", "generating", "publishing", "published"}
    /\ MayBecome(i, "draft") /\ texts < MaxTexts
    /\ texts' = texts + 1
    /\ item' = [item EXCEPT ![i] = Edited(i, texts + 1)]
    /\ UNCHANGED <<runner, posts, approved, unanswered, runs, postFaults>>

Approve(i) ==
    /\ item[i].status = "draft" /\ item[i].body # 0
    /\ Set(i, "approved")
    /\ approved' = approved \union {<<i, item[i].body>>}
    /\ UNCHANGED <<runner, posts, unanswered, texts, runs, postFaults>>

Reject(i) ==
    /\ item[i].status \notin {"none", "publishing", "published"} /\ MayBecome(i, "rejected")
    /\ Set(i, "rejected")
    /\ UNCHANGED <<runner, posts, approved, unanswered, texts, runs, postFaults>>

-----------------------------------------------------------------------------
(* A task works on an item and then on the rest of the list it read; a     *)
(* guard that fails raises and ends the whole pass.                        *)
Working(pc, i, rest, how) == [pc |-> pc, item |-> i, rest |-> rest, how |-> how]
NextOf(pc, rest, how) == IF rest = << >> THEN Off ELSE Working(pc, Head(rest), Tail(rest), how)
Begins(r, task) ==
    /\ runner[r] = Off /\ runs < MaxRuns /\ task # Off
    /\ runs' = runs + 1 /\ runner' = [runner EXCEPT ![r] = task]
    /\ UNCHANGED <<item, posts, approved, unanswered, texts, postFaults>>

(* A pass reads the items of a status whose slot has come.                 *)
InStatus(status, due) == SetToSortSeq({i \in due : item[i].status = status}, <)
GenerateItem(r, i) == item[i].status # "none" /\ Begins(r, Working("generate", i, << >>, "button"))
PublishItem(r, i, how) ==
    item[i].status # "none" /\ how \in {"button", "retry"} /\ Begins(r, Working("publish", i, << >>, how))
GenerateDueItems(r, due) == Begins(r, NextOf("generate", InStatus("queued", due), "due"))
PublishDueItems(r, due) == Begins(r, NextOf("publish", InStatus("approved", due), "due"))

(* The item is taken by its status, whose value is what locks it.          *)
Take(r, pc, allowed, status, call) ==
    /\ runner[r].pc = pc
    /\ IF allowed
       THEN /\ Set(runner[r].item, status)
            /\ runner' = [runner EXCEPT ![r] =
                   [pc |-> call, item |-> @.item, rest |-> @.rest, how |-> @.how,
                    body |-> item[@.item].body]]
       ELSE runner' = [runner EXCEPT ![r] = Off] /\ UNCHANGED item
    /\ UNCHANGED <<posts, approved, unanswered, texts, runs, postFaults>>
TakeToGenerate(r) ==
    Take(r, "generate", item[runner[r].item].status \in {"queued", "draft", "rejected", "failed"},
         "generating", "ask")
Publishable(r) ==
    LET i == runner[r].item
    IN  /\ item[i].status \in {"approved"} \union (IF runner[r].how = "retry" THEN {"failed"} ELSE {})
        /\ item[i].body # 0
TakeToPublishOpen(r) == Take(r, "publish", Publishable(r), "approved", "send")
TakeToPublish(r) == Take(r, "publish", Publishable(r), "publishing", "send")

(* The model answers with a new text, or fails and leaves the old one.     *)
Continue(r, pc) == [runner EXCEPT ![r] = NextOf(pc, @.rest, @.how)]
Generated(r) ==
    /\ runner[r].pc = "ask"
    /\ runner' = Continue(r, "generate")
    /\ \/ /\ texts < MaxTexts /\ texts' = texts + 1
          /\ item' = [item EXCEPT ![runner[r].item] = [status |-> "draft", body |-> texts + 1]]
          /\ UNCHANGED postFaults
       \/ /\ postFaults < MaxPostFaults /\ postFaults' = postFaults + 1
          /\ Set(runner[r].item, "failed") /\ UNCHANGED texts
    /\ UNCHANGED <<posts, approved, unanswered, runs>>

(* Telegram posts the text, refuses it, or posts it and does not answer.   *)
Post(r) == posts' = [posts EXCEPT ![runner[r].item] = Append(@, <<runner[r].body, runner[r].how>>)]
PublishChannelMessage(r) ==
    /\ runner[r].pc = "send"
    /\ \/ /\ Post(r) /\ runner' = [runner EXCEPT ![r].pc = "posted"]
          /\ UNCHANGED <<unanswered, postFaults>>
       \/ /\ postFaults < MaxPostFaults /\ postFaults' = postFaults + 1
          /\ runner' = [runner EXCEPT ![r].pc = "refused"]
          /\ \/ UNCHANGED <<posts, unanswered>>
             \/ Post(r) /\ unanswered' = [unanswered EXCEPT ![runner[r].item] = @ + 1]
    /\ UNCHANGED <<item, approved, texts, runs>>
SealPublication(r) ==
    /\ runner[r].pc \in {"posted", "refused"}
    /\ Set(runner[r].item, IF runner[r].pc = "posted" THEN "published" ELSE "failed")
    /\ runner' = Continue(r, "publish")
    /\ UNCHANGED <<posts, approved, unanswered, texts, runs, postFaults>>

(* The task dies with its process; what it took stays taken.               *)
RunnerDies(r) ==
    /\ runner[r] # Off /\ postFaults < MaxPostFaults
    /\ postFaults' = postFaults + 1
    /\ runner' = [runner EXCEPT ![r] = Off]
    /\ UNCHANGED <<item, posts, approved, unanswered, texts, runs>>

-----------------------------------------------------------------------------
ChannelInit ==
    /\ item = [i \in Items |-> [status |-> "none", body |-> 0]]
    /\ runner = [r \in Runners |-> Off] /\ posts = [i \in Items |-> << >>] /\ approved = {}
    /\ unanswered = [i \in Items |-> 0] /\ texts = 0 /\ runs = 0 /\ postFaults = 0

ChannelNext ==
    \/ \E i \in Items : CreateItem(i) \/ UpdateBody(i) \/ Approve(i) \/ Reject(i)
    \/ \E r \in Runners :
         \/ \E i \in Items : GenerateItem(r, i) \/ \E how \in {"button", "retry"} : PublishItem(r, i, how)
         \/ \E due \in SUBSET Items : GenerateDueItems(r, due) \/ PublishDueItems(r, due)
         \/ TakeToGenerate(r) \/ TakeToPublish(r)
         \/ Generated(r) \/ PublishChannelMessage(r) \/ SealPublication(r) \/ RunnerDies(r)

ChannelSpec == ChannelInit /\ [][ChannelNext]_channelVars

-----------------------------------------------------------------------------
(* What the channel gets is a text an administrator approved, word for     *)
(* word, or the text of a failed item whose retry was asked for.           *)
PostedAsApproved ==
    \A i \in Items : \A k \in DOMAIN posts[i] :
        <<i, posts[i][k][1]>> \in approved \/ posts[i][k][2] = "retry"

(* An item is posted more than once only after posts Telegram made but did *)
(* not confirm, however many buttons, passes and dead processes there are. *)
PostedOnce == \A i \in Items : Len(posts[i]) <= 1 + unanswered[i]
=============================================================================
