----------------------------- MODULE MCServices -----------------------------
(***************************************************************************)
(* Small instances of the eight services that share no state with one      *)
(* another, side by side: in each behaviour one of them runs and the       *)
(* others stay as they are.                                                *)
(***************************************************************************)
EXTENDS RateLimit, Access, SearchPlans, Embedding, Tracker, StatsCache, Backups, BotSession, TLC

VARIABLE part  \* the service that runs

servicesVars ==
    <<part, limitVars, accessVars, plansVars, embedVars, trackerVars, statsVars, backupsVars, botVars>>

\* What a service that stands still starts with makes no difference.  Texts of
\* different profiles are never compared, and profiles differ in nothing else:
\* any texts and any order to begin with.
OneStart ==
    /\ part # "tracker" => profile
    /\ \A p \in Profile : content[p] = CHOOSE c \in Content : TRUE
    /\ later = CHOOSE R \in Orders(Profile) : TRUE

ServicesInit ==
    /\ part \in {"limit", "access", "plans", "embedding", "tracker", "stats", "backups", "bot"}
    /\ LimitInit /\ AccessInit /\ PlansInit /\ EmbedInit /\ TrackerInit /\ StatsInit /\ BackupsInit
    /\ BotInit /\ OneStart

\* The sources of a scan, those with properties about them first.  They touch
\* nothing in common, so it is enough to ask them in this order.
InOrder == <<"adzuna", "jooble", "jobspy", "builtin", "xing", "arbeitsagentur", "wttj", "remotive">>

AsksInOrder ==
    \A s \in Source : todo' = todo \ {s} /\ s \in todo =>
        \A r \in todo : Index(InOrder, s) <= Index(InOrder, r)

ServicesNext ==
    /\ part' = part
    /\ IF part = "limit"     THEN LimitNext   ELSE UNCHANGED limitVars
    /\ IF part = "access"    THEN AccessNext  ELSE UNCHANGED accessVars
    /\ IF part = "plans"     THEN PlansNext /\ AsksInOrder ELSE UNCHANGED plansVars
    /\ IF part = "embedding" THEN EmbedNext   ELSE UNCHANGED embedVars
    /\ IF part = "tracker"   THEN TrackerNext ELSE UNCHANGED trackerVars
    /\ IF part = "stats"     THEN StatsNext   ELSE UNCHANGED statsVars
    /\ IF part = "backups"   THEN BackupsNext ELSE UNCHANGED backupsVars
    /\ IF part = "bot"       THEN BotNext     ELSE UNCHANGED botVars

\* The fairness of SearchPlans and of Embedding, for their behaviours.
PlansFairness ==
    /\ []<>(part = "plans" => started)
    /\ SF_plansVars(part = "plans" /\ NextHour)
    /\ \A s \in Source : WF_plansVars(part = "plans" /\ Ask(s))

ServicesFairness ==
    /\ PlansFairness
    /\ WF_embedVars(part = "embedding" /\ PassStep)
    /\ SF_embedVars(part = "embedding" /\ StartPass(FALSE))

ServicesSpec == ServicesInit /\ [][ServicesNext]_servicesVars /\ ServicesFairness

-----------------------------------------------------------------------------
(* Small instances.                                                        *)

\* Two requests of a user in a second, one of an address in two seconds.
Limits  == ("user" :> 2) @@ ("ip" :> 1)
Windows == ("user" :> 1) @@ ("ip" :> 2)

\* Two users who share a country and a title.  Adzuna does not know "ae",
\* and no source that has a list of countries knows "in".  A title has an alias.
UserOrder   == <<1, 2>>
TitlesOf    == <<<<"cfo", "head", "buyer">>, <<"buyer", "planner">>>>
CountriesOf == <<<<"de", "br", "ae">>, <<"br", "in">>>>
AliasesOf   == [c \in {"de", "br", "ae", "in"}, t \in {"cfo", "head", "buyer", "planner"} |->
                   IF c = "br" /\ t = "cfo" THEN <<"diretor">> ELSE <<>>]

\* Both vacancies are of one company; the other one is only in the list.
EmployerOf == [j \in Job |-> "acme"]

\* The second vacancy is an adjacent role, the newest a worse match.
FitOf   == [v \in Posting |-> IF v = 2 THEN "medium" ELSE "high"]
GradeOf == [v \in Posting |-> IF v = 3 THEN 45 ELSE 80]

-----------------------------------------------------------------------------
(* Properties.                                                             *)

ServicesTypeOK ==
    /\ LimitTypeOK /\ AccessTypeOK /\ PlansTypeOK /\ EmbedTypeOK /\ TrackerTypeOK
    /\ StatsTypeOK /\ BackupsTypeOK /\ BotTypeOK

\* The liveness properties of SearchPlans and Embedding, for the behaviours in
\* which these run: nobody's first title is shut out by Adzuna's cap...
TopTitleKept == part = "plans" => TopTitleEverywhere

\* ... the windows of JobSpy, both of them smaller than their lists here, and of
\* Jooble come to every title and every country of every user...
WindowsMoveOn == part = "plans" => EveryTitleAsked /\ EveryCountryAsked

\* ... and every profile that passes load is embedded as it is in the end, and
\* every vacancy too (_index_profiles, _index_jobs).
IndexCatchesUp == part = "embedding" => VectorFollowsProfile /\ EveryJobIndexed
=============================================================================
