----------------------------- MODULE Broadcasts -----------------------------
(***************************************************************************)
(* Campaigns of the control bot: the owner sends or tests a message, the   *)
(* worker of the five-minute timer goes over the pending campaigns and the *)
(* trigger rules.  Both dispatch a campaign in the same way, in several    *)
(* transactions without locks and with a call of Telegram for each         *)
(* delivery.  The bot runs its handlers concurrently; the timer's service  *)
(* does not overlap itself.                                                *)
(*                                                                         *)
(* The matching of rules is abstracted to one rule that may match one      *)
(* user; campaigns to administrators, which differ in who receives them,   *)
(* are not told apart.  Counters and times are left out.                   *)
(***************************************************************************)
EXTENDS Integers, Sequences, SequencesExt, FiniteSets, FiniteSetsExt

CONSTANTS
    Composers,       \* handler tasks of the control bot
    Subscribers,     \* the users of the audience
    Reached,         \* the user a trigger rule matches
    Forms,           \* what the owner composes: [kind, audience, later]
    Owner, Timer,
    MaxCampaigns, MaxDrafts, MaxTimerPasses, MaxMishaps  \* bounds of the model

Workers == Composers \union {Timer}
ASSUME BroadcastAssumption ==
    /\ Forms \subseteq [kind : {"user", "test"}, audience : SUBSET Subscribers, later : BOOLEAN]
    /\ IsFiniteSet(Subscribers) /\ Timer \notin Composers /\ Owner \notin Subscribers /\ Reached \in Subscribers
    /\ {MaxCampaigns, MaxDrafts, MaxTimerPasses, MaxMishaps} \subseteq Nat

VARIABLES
    campaigns,   \* [kind, status, audience, later] in order of creation
    deliveries,  \* [of, to, status, copies] in order of creation
    work,        \* the dispatch of each worker; it goes over what is todo, and
                 \* over the deliveries left, in order
    draft,       \* the owner's form holds a message
    logged,      \* the trigger is on the log
    trouble,     \* <<campaign, what went wrong with its dispatch>>
    drafts, timerPasses, mishaps
broadcastVars == <<campaigns, deliveries, work, draft, logged, trouble,
                   drafts, timerPasses, mishaps>>

Resting == [pc |-> "idle"]
FinalDelivery == {"sent", "failed", "skipped"}
Of(c) == {d \in DOMAIN deliveries : deliveries[d].of = c}

NewCampaign(kind, status, audience, later) ==
    [kind |-> kind, status |-> status, audience |-> audience, later |-> later]
Dispatching(c, todo, stage) ==
    [pc |-> "fetch", campaign |-> c, todo |-> todo, stage |-> stage]
FirstOf(list) == Dispatching(Min(list), list \ {Min(list)}, "scheduled")
Doing(w, pc) == work[w].pc = pc
Steady == UNCHANGED <<drafts, timerPasses>>

-----------------------------------------------------------------------------
(* The owner.  The form is emptied only after the campaign is dispatched.  *)
FillForm ==
    /\ ~draft /\ drafts < MaxDrafts
    /\ draft' = TRUE /\ drafts' = drafts + 1
    /\ UNCHANGED <<campaigns, deliveries, work, logged, trouble, timerPasses, mishaps>>

SendCampaignFromState(w, form) ==
    /\ w \in Composers /\ Doing(w, "idle") /\ draft /\ Len(campaigns) < MaxCampaigns
    /\ LET scheduled == form.later /\ form.kind = "user"
           status == IF scheduled THEN "scheduled" ELSE "queued"
       IN  /\ campaigns' = Append(campaigns, NewCampaign(form.kind, status, form.audience, form.later))
           /\ IF scheduled THEN draft' = FALSE /\ UNCHANGED work
              ELSE /\ work' = [work EXCEPT ![w] = Dispatching(Len(campaigns) + 1, {}, "form")]
                   /\ UNCHANGED draft
    /\ UNCHANGED <<deliveries, logged, trouble, mishaps>> /\ Steady

TriggerTest(w) ==
    /\ w \in Composers /\ Doing(w, "idle") /\ Len(campaigns) < MaxCampaigns /\ drafts < MaxDrafts
    /\ drafts' = drafts + 1
    /\ campaigns' = Append(campaigns, NewCampaign("test", "queued", Subscribers, FALSE))
    /\ work' = [work EXCEPT ![w] = Dispatching(Len(campaigns) + 1, {}, "rule")]
    /\ UNCHANGED <<deliveries, draft, logged, trouble, timerPasses, mishaps>>

-----------------------------------------------------------------------------
(* A dispatch that ends, or raises: the timer goes on with the next        *)
(* campaign, an exception takes it to the next stage.                      *)
AfterStage(w) ==
    IF work[w].stage = "scheduled" THEN [pc |-> "rules"] ELSE Resting
Finish(w) ==
    /\ work' = [work EXCEPT ![w] =
           IF work[w].stage = "scheduled" /\ work[w].todo # {}
           THEN FirstOf(work[w].todo) ELSE AfterStage(w)]
    /\ draft' = (draft /\ work[w].stage # "form")
    /\ logged' = (logged \/ work[w].stage = "trigger")
Raise(w) ==
    work' = [work EXCEPT ![w] = AfterStage(w)] /\ UNCHANGED <<draft, logged>>

Busy(w, c) == work[w].pc \notin {"idle", "fetch", "rules"} /\ work[w].campaign = c

(* Only the dispatch of a test names the tester.                           *)
Tester(w) == work[w].stage \in {"form", "rule"} /\ campaigns[work[w].campaign].kind = "test"

(* A campaign that is completed, or not due, is left alone.                *)
DispatchCampaign(w) ==
    /\ Doing(w, "fetch")
    /\ LET c == work[w].campaign
           leave == campaigns[c].status = "completed" \/ (campaigns[c].later /\ ~Tester(w))
       IN  IF leave THEN Finish(w) /\ UNCHANGED trouble
           ELSE /\ work' = [work EXCEPT ![w].pc = "list"] /\ UNCHANGED <<draft, logged>>
                /\ trouble' = IF \E v \in Workers : Busy(v, c)
                              THEN trouble \union {<<c, "overlap">>} ELSE trouble
    /\ UNCHANGED <<campaigns, deliveries, mishaps>> /\ Steady

(* The deliveries on file, as they are now, or those to be made.           *)
Snapshot(w, ds) ==
    work' = [work EXCEPT ![w] = [pc |-> "start", campaign |-> @.campaign, todo |-> @.todo,
                                 stage |-> @.stage, left |-> ds]]
Undelivered(c) == Of(c)
Unsent(c) == {d \in Of(c) : deliveries[d].status # "sent"}
ListDeliveries(w) ==
    /\ Doing(w, "list")
    /\ IF Of(work[w].campaign) = {} THEN work' = [work EXCEPT ![w].pc = "make"]
       ELSE Snapshot(w, Unsent(work[w].campaign))
    /\ UNCHANGED <<campaigns, deliveries, draft, logged, trouble, mishaps>> /\ Steady

Recipients(w) ==
    IF Tester(w) THEN {Owner} ELSE campaigns[work[w].campaign].audience
CreateDeliveries(w) ==
    LET c == work[w].campaign
        fresh == [i \in 1..Cardinality(Recipients(w)) |->
                    [of |-> c, to |-> SetToSeq(Recipients(w))[i], status |-> "queued",
                     copies |-> 0]]
    IN  /\ Doing(w, "make")
        /\ IF Recipients(w) = {}
           THEN /\ campaigns' = [campaigns EXCEPT ![c].status = "completed"]
                /\ Finish(w) /\ UNCHANGED deliveries
           ELSE /\ deliveries' = deliveries \o fresh
                /\ Snapshot(w, Len(deliveries) + 1 .. Len(deliveries) + Len(fresh))
                /\ UNCHANGED <<campaigns, draft, logged>>
        /\ UNCHANGED <<trouble, mishaps>> /\ Steady

StartProcessing(w) ==
    /\ Doing(w, "start")
    /\ campaigns' = [campaigns EXCEPT ![work[w].campaign].status = "processing"]
    /\ work' = [work EXCEPT ![w].pc = "next"]
    /\ UNCHANGED <<deliveries, draft, logged, trouble, mishaps>> /\ Steady

EndDispatch(w) ==
    /\ Doing(w, "next") /\ work[w].left = {}
    /\ Finish(w)
    /\ UNCHANGED <<campaigns, deliveries, trouble, mishaps>> /\ Steady

(* A message is sent or refused, or the call raises and ends the dispatch, *)
(* with the message sent or not.                                           *)
Sent(d) == deliveries' = [deliveries EXCEPT ![d].copies = @ + 1]
DeliverOne(w) ==
    /\ Doing(w, "next") /\ work[w].left # {}
    /\ LET d == Min(work[w].left)
           c == work[w].campaign
       IN  \/ /\ Sent(d) /\ work' = [work EXCEPT ![w].pc = "sent"]
              /\ UNCHANGED <<draft, logged, trouble, mishaps>>
           \/ /\ mishaps < MaxMishaps /\ mishaps' = mishaps + 1
              /\ work' = [work EXCEPT ![w].pc = "failed"]
              /\ UNCHANGED <<deliveries, draft, logged, trouble>>
           \/ /\ mishaps < MaxMishaps /\ mishaps' = mishaps + 1
              /\ Raise(w)
              /\ \/ UNCHANGED deliveries /\ trouble' = trouble \union {<<c, "raised">>}
                 \/ Sent(d) /\ trouble' = trouble \union {<<c, "raised">>, <<c, "unmarked">>}
    /\ UNCHANGED campaigns /\ Steady

UpdateDeliveryStatus(w) ==
    /\ work[w].pc \in {"sent", "failed"}
    /\ deliveries' = [deliveries EXCEPT ![Min(work[w].left)].status = work[w].pc]
    /\ work' = [work EXCEPT ![w].pc = "count", ![w].left = @ \ {Min(@)}]
    /\ UNCHANGED <<campaigns, draft, logged, trouble, mishaps>> /\ Steady

(* Counting the deliveries completes a campaign that has only final ones.  *)
Recalculated(c) ==
    IF \A d \in Of(c) : deliveries[d].status \in FinalDelivery
    THEN [campaigns EXCEPT ![c].status = "completed"] ELSE campaigns
RecalculateCampaign(w) ==
    /\ Doing(w, "count")
    /\ campaigns' = Recalculated(work[w].campaign)
    /\ work' = [work EXCEPT ![w].pc = "next"]
    /\ UNCHANGED <<deliveries, draft, logged, trouble, mishaps>> /\ Steady

MarkDeliveryClicked(d) ==
    /\ deliveries[d].copies > 0
    /\ campaigns' = Recalculated(deliveries[d].of)
    /\ UNCHANGED <<deliveries, work, draft, logged, trouble, mishaps>> /\ Steady
-----------------------------------------------------------------------------
(* The timer: the campaigns pending when its pass begins, then the rule.   *)
Pending == {c \in DOMAIN campaigns : campaigns[c].status \in {"queued", "scheduled", "processing"}}
ProcessPendingCampaigns ==
    /\ Doing(Timer, "idle") /\ timerPasses < MaxTimerPasses
    /\ timerPasses' = timerPasses + 1
    /\ work' = [work EXCEPT ![Timer] = IF Pending = {} THEN [pc |-> "rules"] ELSE FirstOf(Pending)]
    /\ UNCHANGED <<campaigns, deliveries, draft, logged, trouble, drafts, mishaps>>

(* A rule that matches makes a campaign of its own, unless the log says it *)
(* has been dispatched.                                                    *)
ProcessTriggerRules ==
    /\ Doing(Timer, "rules")
    /\ \/ /\ ~logged /\ Len(campaigns) < MaxCampaigns
          /\ campaigns' = Append(campaigns, NewCampaign("trigger", "queued", {Reached}, FALSE))
          /\ work' = [work EXCEPT ![Timer] = Dispatching(Len(campaigns) + 1, {}, "trigger")]
       \/ work' = [work EXCEPT ![Timer] = Resting] /\ UNCHANGED campaigns
    /\ UNCHANGED <<deliveries, draft, logged, trouble, mishaps>> /\ Steady

ScheduleComes(c) ==
    /\ campaigns[c].later
    /\ campaigns' = [campaigns EXCEPT ![c].later = FALSE]
    /\ UNCHANGED <<deliveries, work, draft, logged, trouble, mishaps>> /\ Steady

(* A process dies with its dispatches; the bot forgets the form.           *)
ProcessDies(ws) ==
    /\ mishaps < MaxMishaps /\ \E w \in ws : ~Doing(w, "idle")
    /\ mishaps' = mishaps + 1
    /\ work' = [w \in Workers |-> IF w \in ws THEN Resting ELSE work[w]]
    /\ draft' = (draft /\ ws = {Timer})
    /\ LET lost == {w \in ws : ~Doing(w, "idle") /\ ~Doing(w, "rules")}
       IN  trouble' = trouble \union {<<work[w].campaign, "died">> : w \in lost}
                        \union {<<work[w].campaign, "unmarked">> : w \in {v \in lost : Doing(v, "sent")}}
    /\ UNCHANGED <<campaigns, deliveries, logged, drafts, timerPasses>>

-----------------------------------------------------------------------------
BroadcastInit ==
    /\ campaigns = << >> /\ deliveries = << >> /\ work = [w \in Workers |-> Resting]
    /\ draft = FALSE /\ logged = FALSE /\ trouble = {}
    /\ drafts = 0 /\ timerPasses = 0 /\ mishaps = 0

BroadcastNext ==
    \/ FillForm
    \/ \E w \in Workers :
         \/ \E form \in Forms : SendCampaignFromState(w, form)
         \/ TriggerTest(w) \/ DispatchCampaign(w) \/ ListDeliveries(w) \/ CreateDeliveries(w)
         \/ StartProcessing(w) \/ DeliverOne(w) \/ UpdateDeliveryStatus(w)
         \/ RecalculateCampaign(w) \/ EndDispatch(w)
    \/ ProcessPendingCampaigns \/ ProcessTriggerRules
    \/ \E d \in DOMAIN deliveries : MarkDeliveryClicked(d)
    \/ \E c \in DOMAIN campaigns : ScheduleComes(c)
    \/ ProcessDies(Composers) \/ ProcessDies({Timer})

BroadcastSpec == BroadcastInit /\ [][BroadcastNext]_broadcastVars

-----------------------------------------------------------------------------
(* Two messages of a campaign to one person: a delivery made twice, or two  *)
(* deliveries.                                                             *)
Twice(c, p) ==
    \E d, e \in Of(c) :
        /\ deliveries[d].to = p /\ deliveries[e].to = p
        /\ deliveries[d].copies > 0 /\ deliveries[e].copies > 0
        /\ d # e \/ deliveries[d].copies > 1
Had(c, what) == <<c, what>> \in trouble

(* A person gets the message of a campaign twice only if two dispatches of *)
(* it overlapped or one was lost between the sending and its record; and a *)
(* trigger's message in two campaigns only if the earlier one's dispatch   *)
(* raised or died before the log.                                          *)
SentOnce ==
    \A c \in DOMAIN campaigns :
        /\ \A p \in Subscribers \union {Owner} :
               Twice(c, p) => Had(c, "overlap") \/ Had(c, "unmarked")
        /\ \A e \in 1..(c - 1) :
               campaigns[c].kind = "trigger" /\ campaigns[e].kind = "trigger" =>
                   Had(e, "raised") \/ Had(e, "died")

(* A test goes to its tester only (control_bot/router.py: "Оно уйдёт только *)
(* вам").                                                                  *)
TestStaysWithTester ==
    \A d \in DOMAIN deliveries :
        campaigns[deliveries[d].of].kind = "test" /\ deliveries[d].copies > 0 =>
            deliveries[d].to = Owner
=============================================================================
