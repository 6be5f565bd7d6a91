------------------------------ MODULE MCTables ------------------------------
(* The components that are tables and counters changed by whole handlers, for *)
(* TLC: admin login, captcha remote control, account records, delivery rules, *)
(* reply rules, browser slots, strategy weights, drag history and the parse   *)
(* of an order. They share no state, so one run explores each of them by      *)
(* itself, the others at rest.                                                *)
EXTENDS AdminLogin, MCCaptchaRemote, AccountRecords, Delivery, Replies,
        SliderSlots, StrategyWeights, SliderHistory, OrderParse, TLC

VARIABLE component

CONSTANTS user, user_at, other, third

\* user and user_at are one account without and with a timestamp.
MCPureId == (user :> "p") @@ (user_at :> "p") @@ (other :> "q") @@ (third :> "r")

TablesVars ==
    <<component, limiterVars, remoteVars, recordVars, deliveryVars,
      replyVars, slotVars, weightVars, historyVars, parseVars>>

TablesInit ==
    /\ component \in {"limiter", "remote", "records", "delivery", "replies",
                      "slots", "weights", "history", "parse"}
    /\ LimiterInit
    /\ RemoteInit
    /\ RecordsInit
    /\ DeliveryInit
    /\ RepliesInit
    /\ SlotInit
    /\ WeightsInit
    /\ HistoryInit
    /\ ParseInit

LimiterSteps ==
    /\ component = "limiter" /\ LimiterNext
    /\ UNCHANGED <<component, remoteVars, recordVars, deliveryVars,
                   replyVars, slotVars, weightVars, historyVars, parseVars>>

RemoteSteps ==
    /\ component = "remote" /\ RemoteNext
    /\ UNCHANGED <<component, limiterVars, recordVars, deliveryVars,
                   replyVars, slotVars, weightVars, historyVars, parseVars>>

RecordsSteps ==
    /\ component = "records" /\ RecordsNext
    /\ UNCHANGED <<component, limiterVars, remoteVars, deliveryVars,
                   replyVars, slotVars, weightVars, historyVars, parseVars>>

DeliverySteps ==
    /\ component = "delivery" /\ DeliveryNext
    /\ UNCHANGED <<component, limiterVars, remoteVars, recordVars, replyVars,
                   slotVars, weightVars, historyVars, parseVars>>

RepliesSteps ==
    /\ component = "replies" /\ RepliesNext
    /\ UNCHANGED <<component, limiterVars, remoteVars, recordVars,
                   deliveryVars, slotVars, weightVars, historyVars,
                   parseVars>>

SlotSteps ==
    /\ component = "slots" /\ SlotNext
    /\ UNCHANGED <<component, limiterVars, remoteVars, recordVars,
                   deliveryVars, replyVars, weightVars, historyVars,
                   parseVars>>

WeightsSteps ==
    /\ component = "weights" /\ WeightsNext
    /\ UNCHANGED <<component, limiterVars, remoteVars, recordVars,
                   deliveryVars, replyVars, slotVars, historyVars, parseVars>>

HistorySteps ==
    /\ component = "history" /\ HistoryNext
    /\ UNCHANGED <<component, limiterVars, remoteVars, recordVars,
                   deliveryVars, replyVars, slotVars, weightVars, parseVars>>

ParseSteps ==
    /\ component = "parse" /\ ParseNext
    /\ UNCHANGED <<component, limiterVars, remoteVars, recordVars,
                   deliveryVars, replyVars, slotVars, weightVars,
                   historyVars>>

TablesNext ==
    \/ LimiterSteps
    \/ RemoteSteps
    \/ RecordsSteps
    \/ DeliverySteps
    \/ RepliesSteps
    \/ SlotSteps
    \/ WeightsSteps
    \/ HistorySteps
    \/ ParseSteps

TablesSpec == TablesInit /\ [][TablesNext]_TablesVars
=============================================================================
