---------------------------- MODULE ServicesProofs ----------------------------
(***************************************************************************)
(* What is proved of the parts around the pipeline holds where they run    *)
(* side by side: the run of the services (MCServices) implements the       *)
(* specification of each part, whichever parts it looks at.                *)
(***************************************************************************)
EXTENDS MCServices, PlatformsProofs, AlertsProofs, DashboardProofs

\* Every part begins as it would by itself.
LEMMA PartsBegin ==
    Init => /\ SlackInit /\ TelegramInit /\ ClientsInit /\ CredentialsInit /\ ReviewsInit
            /\ StatisticsInit /\ DashboardInit /\ ReceiversInit /\ RoutingInit
BY DEF Init

\* A step is one of the part that is looked at; the others do not see it.
LEMMA PartsStep ==
    [Next]_allVars =>
        /\ [SlackNext]_slackVars
        /\ [TelegramNext]_telegramVars
        /\ [ClientsNext]_clientVars
        /\ [CredentialsNext]_credentialVars
        /\ [ReviewsNext]_reviewVars
        /\ [StatisticsNext]_statisticsVars
        /\ [DashboardNext]_dashboardVars
        /\ [ReceiversNext]_receiverVars
        /\ [RoutingNext]_routingVars
<1> SUFFICES ASSUME [Next]_allVars
             PROVE  /\ [SlackNext]_slackVars
                    /\ [TelegramNext]_telegramVars
                    /\ [ClientsNext]_clientVars
                    /\ [CredentialsNext]_credentialVars
                    /\ [ReviewsNext]_reviewVars
                    /\ [StatisticsNext]_statisticsVars
                    /\ [DashboardNext]_dashboardVars
                    /\ [ReceiversNext]_receiverVars
                    /\ [RoutingNext]_routingVars
    OBVIOUS
<1>1. CASE Next
    BY <1>1 DEF Next, outside
<1>2. CASE UNCHANGED allVars
    BY <1>2 DEF allVars
<1> QED
    BY <1>1, <1>2

\* Every part behaves in the run as its own specification says, so that each
\* theorem about a part is one about the run as well.
THEOREM ServicesAreParts ==
    Spec => /\ SlackSpec /\ TelegramSpec /\ ClientsSpec /\ CredentialsSpec /\ ReviewsSpec
            /\ StatisticsSpec /\ DashboardSpec /\ ReceiversSpec /\ RoutingSpec
<1> QED
    BY PartsBegin, PartsStep, PTL
    DEF Spec, SlackSpec, TelegramSpec, ClientsSpec, CredentialsSpec, ReviewsSpec,
        StatisticsSpec, DashboardSpec, ReceiversSpec, RoutingSpec

\* TypesHold: the variables of every part keep their types.
THEOREM ServicesTypeCorrect == Spec => []TypesHold
<1>1. /\ SlackTypeOK /\ TelegramTypeOK /\ ClientsTypeOK /\ CredentialsTypeOK /\ ReviewsTypeOK
      /\ StatisticsTypeOK /\ DashboardTypeOK /\ ReceiversTypeOK /\ RoutingTypeOK
      => TypesHold
    BY DEF TypesHold
<1> QED
    BY <1>1, ServicesAreParts, SlackTypeCorrect, TelegramTypeCorrect, ClientsTypeCorrect,
       CredentialsTypeCorrect, ReviewsTypeCorrect, StatisticsTypeCorrect, DashboardTypeCorrect,
       ReceiversTypeCorrect, RoutingTypeCorrect, PTL
=============================================================================
