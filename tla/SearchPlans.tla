---------------------------- MODULE SearchPlans ----------------------------
(***************************************************************************)
(* Which titles a scan asks which provider for in which country: the plans *)
(* of the users (user_scope_service), merged and rotated by every scan     *)
(* (_background_scan), and what the eight sources that search for titles   *)
(* cut out of the merged plan; the other four load whole feeds.  A query   *)
(* is a pair <<country, title>>, with the country in which the provider is *)
(* told to search.                                                         *)
(***************************************************************************)
EXTENDS Integers, Sequences, FiniteSets, FiniteSetsExt, SequencesExt, Orders

CONSTANTS
    User,            \* ordered by id, a sequence
    Titles,          \* Titles[u]: target_titles, most wanted first
    Countries,       \* Countries[u]: preferred_countries
    Aliases,         \* Aliases[<<c, t>>]: what expand_queries_for_country adds to t in c
    Enabled,         \* sources that DISABLED_SOURCES does not name
    Germany,         \* "de", where sources search by default
    AdzunaSupported, \* countries that Adzuna knows
    JoobleSupported, \* COUNTRY_LOCATIONS
    BuiltInSupported,\* BUILTIN_COUNTRY_MAP
    XingSupported,   \* xing_countries
    WttjSupported,   \* _COUNTRY_MAP
    AdzunaCap,       \* ADZUNA_MAX_COMBOS: 80 in the code
    JoobleQueries,   \* REQUESTS_PER_SCAN: 8 in the code
    JobSpyCountries, \* JOBSPY_MAX_COUNTRIES: 3 in the code
    JobSpyQueries,   \* JOBSPY_MAX_QUERIES: 8 in the code
    BuiltInQueries,  \* 4 in the code
    MaxSwitches,     \* bound on profiles that become complete or incomplete
    MaxBreaks        \* bound on restarts

ASSUME SearchPlansAssumption ==
    /\ User \in Seq(ToSet(User)) /\ IsInjective(User)
    /\ \A u \in ToSet(User) : /\ Titles[u] \in Seq(ToSet(Titles[u]))
                              /\ Countries[u] \in Seq(ToSet(Countries[u]))
                              /\ \A c \in ToSet(Countries[u]), t \in ToSet(Titles[u]) :
                                    Aliases[<<c, t>>] \in Seq(ToSet(Aliases[<<c, t>>]))
    /\ Germany \in JoobleSupported
    /\ AdzunaCap \in Nat \ {0} /\ JoobleQueries \in Nat \ {0}
    /\ JobSpyCountries \in Nat \ {0} /\ JobSpyQueries \in Nat \ {0}
    /\ BuiltInQueries \in Nat \ {0}
    /\ MaxSwitches \in Nat /\ MaxBreaks \in Nat

VARIABLES
    hour,      \* hour of the day
    started,   \* a scan has started in this hour
    offset,    \* _search_round_robin_offset
    planned,   \* users with titles and countries in an active profile
    params,    \* the SearchParams of the running scan
    todo,      \* sources that have not been asked in it
    refused,   \* JoobleSource._auth_failed
    asked,     \* asked[source]: its queries of the latest scan
    switches, breaks

plansVars == <<hour, started, offset, planned, params, todo, refused, asked, switches, breaks>>

\* Sources that search each country for its own titles...
Specific == {"adzuna", "jooble", "jobspy", "builtin"}

\* ... and those that search for all titles in the same places.
Source == Specific \cup {"xing", "arbeitsagentur", "wttj", "remotive"}

ASSUME EnabledAssumption == Enabled \subseteq Source

\* queries[c] is country_queries[c]; all is what SearchParams calls queries.
NoParams == [countries |-> <<>>, queries |-> <<>>, all |-> <<>>]

PlansInit ==
    /\ hour = 0 /\ started = FALSE
    /\ offset = 0
    /\ planned = ToSet(User)
    /\ params = NoParams /\ todo = {}
    /\ refused = FALSE
    /\ asked = [s \in Source |-> {}]
    /\ switches = 0 /\ breaks = 0

\* rotate_items.
RotateItems(s, n) == [i \in DOMAIN s |-> s[((i - 1 + n) % Len(s)) + 1]]

\* The domain of rank by increasing rank.
ByRank(rank) == Ranked([v \in DOMAIN rank |-> {w \in DOMAIN rank : rank[w] < rank[v]}])

Index(s, v) == CHOOSE i \in DOMAIN s : s[i] = v

\* The members of S in the order of s.
Select(s, S) == ByRank([v \in ToSet(s) \cap S |-> Index(s, v)])

\* _round_robin_values: the first of each sequence, then the second of each...,
\* and every value only where it comes first.
RoundRobin(seqs) ==
    LET places(v) == UNION {{(n - 1) * Len(seqs) + i : n \in {m \in DOMAIN seqs[i] : seqs[i][m] = v}} :
                              i \in DOMAIN seqs}
    IN ByRank([v \in UNION {ToSet(seqs[i]) : i \in DOMAIN seqs} |-> Min(places(v))])

Image(s, F(_)) == [i \in DOMAIN s |-> F(s[i])]

\* The plans of the users P in the order of a scan with offset n.
Turn(P, n) == RotateItems(Select(User, P), n)

\* expand_queries_for_country: each title is followed by its local aliases.
Expanded(u, c) ==
    RoundRobin(<<FlattenSeq(Image(Titles[u], LAMBDA t : <<t>> \o Aliases[<<c, t>>]))>>)

\* Mutant of QueriesFor: the titles of all users are searched everywhere.
QueriesOfAll(c, turn) == RoundRobin(Image(turn, LAMBDA u : Expanded(u, c)))

\* country_queries[c]: the titles of those who want c.
QueriesFor(c, turn) ==
    RoundRobin(Image(Select(turn, {u \in ToSet(turn) : Contains(Countries[u], c)}),
                     LAMBDA u : Expanded(u, c)))

\* merge_user_search_plans.
Merged(turn) ==
    LET countries == RoundRobin(Image(turn, LAMBDA u : Countries[u])) IN
    [countries |-> countries,
     queries |-> [c \in ToSet(countries) |-> QueriesFor(c, turn)],
     all |-> RoundRobin(Image(turn, LAMBDA u : Titles[u]))]

\* SearchParams.queries_for_country.
QueriesIn(c) == IF c \in DOMAIN params.queries THEN params.queries[c] ELSE params.all

\* It depends on the users and the offset only.
MergedPlan ==
    [q \in (SUBSET ToSet(User)) \X (0 .. Len(User) - 1) |->
        IF q[1] = {} THEN NoParams ELSE Merged(Turn(q[1], q[2]))]

\* Mutant of NextOffset: the first user stays first.
SameOffset == offset

NextOffset == (offset + 1) % Cardinality(planned)

\* A scan starts, by the hourly trigger or by hand; while another one is
\* under way both return at once.  Without a plan it asks nobody.
Scan ==
    /\ todo = {}
    /\ started' = TRUE
    /\ asked' = [s \in Source |-> {}]
    /\ IF planned = {} THEN UNCHANGED <<offset, params, todo>>
       ELSE /\ offset' = NextOffset
            /\ params' = MergedPlan[<<planned, offset>>]
            /\ todo' = Enabled
    /\ UNCHANGED <<hour, planned, refused, switches, breaks>>

-----------------------------------------------------------------------------
(* What the sources ask.                                                   *)

FirstOf(s, n) == SubSeq(s, 1, IF n < Len(s) THEN n ELSE Len(s))
PairsOf(c, s) == {<<c, t>> : t \in ToSet(s)}

\* The best title in every country, then the second best in every country...
Before(p, q) ==
    LET i == Index(QueriesIn(p[1]), p[2])  j == Index(QueriesIn(q[1]), q[2]) IN
    i < j \/ (i = j /\ Index(params.countries, p[1]) < Index(params.countries, q[1]))

Adzuna ==
    LET combos == UNION {PairsOf(c, QueriesIn(c)) : c \in ToSet(params.countries) \cap AdzunaSupported}
    IN {q \in combos : Cardinality({p \in combos : Before(p, q)}) < AdzunaCap}

\* Mutant of Slot: one window for the whole day.
SlotOfDay == 0

\* Providers with few requests move on every three hours.
Slot == hour \div 3

\* A plan without a country that Jooble knows is searched in Germany.
Jooble ==
    LET supported == Select(params.countries, JoobleSupported)
        c == IF supported = <<>> THEN Germany
             ELSE supported[(Slot % Len(supported)) + 1]
    IN IF refused THEN {} ELSE PairsOf(c, FirstOf(QueriesIn(c), JoobleQueries))

\* The window of n values that belongs to this slot.
WindowOf(s, n) == IF Len(s) > n THEN FirstOf(RotateItems(s, Slot * n), n) ELSE s

JobSpy ==
    UNION {PairsOf(c, WindowOf(QueriesIn(c), JobSpyQueries)) :
             c \in ToSet(WindowOf(params.countries, JobSpyCountries))}

\* The titles of a country that BuiltIn does not know are searched in Germany.
BuiltIn ==
    UNION {PairsOf(IF c \in BuiltInSupported THEN c ELSE Germany,
                   FirstOf(QueriesIn(c), BuiltInQueries)) : c \in ToSet(params.countries)}

Xing ==
    IF ToSet(params.countries) \cap XingSupported = {} THEN {} ELSE PairsOf(Germany, params.all)

Arbeitsagentur ==
    IF Contains(params.countries, Germany) THEN PairsOf(Germany, params.all) ELSE {}

Wttj ==
    LET known == ToSet(params.countries) \cap WttjSupported
    IN UNION {PairsOf(c, params.all) : c \in IF known = {} THEN {Germany} ELSE known}

Remotive == PairsOf("anywhere", params.all)

Queries(s) ==
    CASE s = "adzuna"         -> Adzuna
      [] s = "jooble"         -> Jooble
      [] s = "jobspy"         -> JobSpy
      [] s = "builtin"        -> BuiltIn
      [] s = "xing"           -> Xing
      [] s = "arbeitsagentur" -> Arbeitsagentur
      [] s = "wttj"           -> Wttj
      [] s = "remotive"       -> Remotive

\* The sources are asked concurrently; a source reads the clock by itself.
Ask(s) ==
    /\ s \in todo
    /\ asked' = [asked EXCEPT ![s] = Queries(s)]
    /\ todo' = todo \ {s}
    /\ params' = IF todo' = {} THEN NoParams ELSE params
    /\ UNCHANGED <<hour, started, offset, planned, refused, switches, breaks>>

-----------------------------------------------------------------------------
(* The environment.                                                        *)

\* A scan is done within its hour: each source has a timeout of minutes.
NextHour ==
    /\ started /\ todo = {}
    /\ hour' = (hour + 1) % 24 /\ started' = FALSE
    /\ UNCHANGED <<offset, planned, params, todo, refused, asked, switches, breaks>>

\* A user activates, deactivates, fills in or empties the profile.
Switch(u) ==
    /\ switches < MaxSwitches
    /\ planned' = IF u \in planned THEN planned \ {u} ELSE planned \cup {u}
    /\ switches' = switches + 1
    /\ UNCHANGED <<hour, started, offset, params, todo, refused, asked, breaks>>

\* Jooble answers 403: its source stays off until the process restarts.
JoobleRefuses ==
    /\ ~refused /\ breaks < MaxBreaks
    /\ refused' = TRUE
    /\ UNCHANGED <<hour, started, offset, planned, params, todo, asked, switches, breaks>>

RestartScans ==
    /\ breaks < MaxBreaks
    /\ offset' = 0 /\ refused' = FALSE /\ started' = FALSE
    /\ params' = NoParams /\ todo' = {}
    /\ breaks' = breaks + 1
    /\ UNCHANGED <<hour, planned, asked, switches>>

PlansNext ==
    \/ Scan \/ NextHour \/ JoobleRefuses \/ RestartScans
    \/ \E s \in Source : Ask(s)
    \/ \E u \in ToSet(User) : Switch(u)

PlansSpec     == PlansInit /\ [][PlansNext]_plansVars

\* The hourly trigger fires, time passes although scans are started by hand,
\* and every source is asked in the end.
PlansFairSpec ==
    /\ PlansSpec
    /\ []<>started /\ SF_plansVars(NextHour)
    /\ \A s \in Enabled : WF_plansVars(Ask(s))

-----------------------------------------------------------------------------
(* Properties.                                                             *)

PlansTypeOK ==
    /\ hour \in 0 .. 23 /\ offset \in Nat /\ (offset = 0 \/ offset < Len(User))
    /\ started \in BOOLEAN /\ planned \subseteq ToSet(User) /\ todo \subseteq Enabled
    /\ ToSet(params.countries) = DOMAIN params.queries
    /\ refused \in BOOLEAN /\ DOMAIN asked = Source
    /\ switches \in 0 .. MaxSwitches /\ breaks \in 0 .. MaxBreaks

\* User u has country c and title t, or a title that t is an alias of in c.
Wants(u, c, t) ==
    Contains(Countries[u], c)
      /\ \E w \in ToSet(Titles[u]) : t = w \/ Contains(Aliases[<<c, w>>], t)

\* A source with queries for each country asks for no title in a country unless
\* one user wants both: merging, rotating and cutting windows never crosses two
\* users' plans (merge_user_search_plans).  The exceptions are searches in
\* Germany: Jooble's for the titles of users none of whose countries it knows,
\* BuiltIn's for the titles of a country that it does not know.
NoForeignQuery ==
    \A s \in Specific : \A q \in asked[s] : \E u \in ToSet(User) :
        \/ Wants(u, q[1], q[2])
        \/ /\ s = "jooble" /\ q[1] = Germany
           /\ ToSet(Countries[u]) \cap JoobleSupported = {} /\ Contains(Titles[u], q[2])
        \/ /\ s = "builtin" /\ q[1] = Germany
           /\ \E c \in ToSet(Countries[u]) \ BuiltInSupported : Wants(u, c, q[2])

Stays(u) == <>[](u \in planned)

\* The cap on Adzuna's requests never shuts out a user: whose profile stays
\* complete has the first title searched again and again in every country.
TopTitleEverywhere ==
    \A u \in ToSet(User) : \A c \in ToSet(Countries[u]) \cap AdzunaSupported :
        Stays(u) => []<>(<<c, Titles[u][1]>> \in asked["adzuna"])

\* The windows of JobSpy and of Jooble, unless its key was refused, come to every
\* country of a user whose profile stays complete, again and again.
EveryCountryAsked ==
    \A u \in ToSet(User) : Stays(u) => \A c \in ToSet(Countries[u]) :
        /\ []<>(\E q \in asked["jobspy"] : q[1] = c)
        /\ c \in JoobleSupported /\ <>[](~refused) => []<>(\E q \in asked["jooble"] : q[1] = c)

\* JobSpy asks for every title of a user whose profile stays complete again and
\* again, in some country of the user.  Its windows of titles and of countries
\* are cut by one slot, so this depends on the lengths of both lists.
EveryTitleAsked ==
    \A u \in ToSet(User) : Stays(u) => \A t \in ToSet(Titles[u]) :
        []<>(\E c \in ToSet(Countries[u]) : <<c, t>> \in asked["jobspy"])
=============================================================================
