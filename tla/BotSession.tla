----------------------------- MODULE BotSession -----------------------------
(***************************************************************************)
(* One user's conversation with the Telegram bot (bot/handlers): searches  *)
(* (job_service.search_and_score), the inbox, the list of results that     *)
(* "show more" pages through, and the two prompts that wait for a text.    *)
(* The bot takes one update at a time; the user's clicks on the dashboard  *)
(* fall in between the steps of a search, which lasts minutes.  What the   *)
(* bot remembers (context.user_data) is lost with the process.             *)
(***************************************************************************)
EXTENDS Integers, Sequences, FiniteSets, SequencesExt, Orders

CONSTANTS
    Posting,       \* 1 .. n: vacancies, a fresher one is greater
    Fit,           \* Fit[v]: bucket of pre_filter, "high", "medium" or "reject"
    Grade,         \* Grade[v]: the score the model gives
    ProfileField,  \* PROFILE_FIELDS
    NoField,
    PageSize,      \* 15 in the code
    MaxScored,     \* 80 in the code
    MaxListed,     \* 100 in the code
    MaxUpdates,    \* bound on updates and clicks on the dashboard, together
    MaxFaults      \* bound on restarts and failed messages, together

ASSUME BotAssumption ==
    /\ Posting \subseteq Nat /\ IsFiniteSet(Posting)
    /\ Fit \in [Posting -> {"high", "medium", "reject"}] /\ Grade \in [Posting -> 0 .. 100]
    /\ NoField \notin ProfileField
    /\ PageSize \in Nat \ {0} /\ MaxScored \in Nat \ {0} /\ MaxListed \in Nat \ {0}
    /\ MaxUpdates \in Nat /\ MaxFaults \in Nat

VARIABLES
    mark,      \* mark[v]: "hidden" (applied or rejected), "withdrawn", or "open"
    graded,    \* vacancies with a score of this user
    list,      \* user_data["search_results"], <<>> when there is none
    page,      \* user_data["search_page"]
    editing,   \* user_data["editing_profile_field"]
    awaiting,  \* user_data["awaiting_custom_search"]
    search,    \* the search the bot is busy with
    cards,     \* positions of the list whose card was sent, in order
    failed,    \* pages of the list that were not sent to the end
    updates, faults

botVars == <<mark, graded, list, page, editing, awaiting, search, cards, failed, updates, faults>>

memory == <<list, page, cards, failed>>
prompts == <<editing, awaiting>>

NoSearch == [pc |-> "none", candidates |-> <<>>]

BotInit ==
    /\ mark = [v \in Posting |-> "open"] /\ graded = {}
    /\ list = <<>> /\ page = 0 /\ cards = <<>> /\ failed = 0
    /\ editing = NoField /\ awaiting = FALSE
    /\ search = NoSearch
    /\ updates = 0 /\ faults = 0

\* An update is taken when the one before it is done.
TakeUpdate ==
    /\ search.pc = "none" /\ updates < MaxUpdates
    /\ updates' = updates + 1

-----------------------------------------------------------------------------
(* Lists and pages.                                                        *)

\* results[:n]
UpTo(l, n) == SubSeq(l, 1, IF n <= Len(l) THEN n ELSE Len(l))

\* The positions on page p of l.
Positions(l, p) ==
    LET start == p * PageSize IN UpTo([i \in 1 .. Len(l) - start |-> start + i], PageSize)

\* _send_results_page: the cards of page p of l, after those already sent;
\* Telegram may refuse a message, which ends the update.
SendPage(l, p, sent, failures) ==
    \/ /\ cards' = sent \o Positions(l, p)
       /\ failed' = failures
       /\ UNCHANGED faults
    \/ /\ faults < MaxFaults /\ faults' = faults + 1
       /\ \E k \in 0 .. Len(Positions(l, p)) : cards' = sent \o UpTo(Positions(l, p), k)
       /\ failed' = failures + 1

\* Mutant of FirstPage: the page counter is not reset for a new list.
PageAsItWas == page

FirstPage == 0

\* A list that is not empty replaces the one before it.
ShowList(l) ==
    IF l = <<>> THEN UNCHANGED <<memory, faults>>
    ELSE /\ list' = l /\ page' = FirstPage
         /\ SendPage(l, 0, <<>>, 0)

\* Any "show more" button ever sent pages through the newest list.  The page
\* counts as shown before its first card is sent.
ShowMore ==
    /\ TakeUpdate
    /\ IF list = <<>> THEN UNCHANGED <<memory, faults>>
       ELSE /\ page' = page + 1 /\ UNCHANGED list
            /\ IF (page + 1) * PageSize >= Len(list) THEN UNCHANGED <<cards, failed, faults>>
               ELSE SendPage(list, page + 1, cards, failed)
    /\ UNCHANGED <<mark, graded, prompts, search>>

\* By grade, then by place[v].
BestFirst(place) ==
    Ranked([v \in DOMAIN place |->
               {w \in DOMAIN place : \/ Grade[w] > Grade[v]
                                     \/ Grade[w] = Grade[v] /\ place[w] < place[v]}])

\* inbox_handler: scored vacancies that the user has not dealt with.
Inbox(least) ==
    /\ TakeUpdate
    /\ ShowList(BestFirst([v \in {w \in graded : Grade[w] >= least /\ mark[w] = "open"} |-> -v]))
    /\ UNCHANGED <<mark, graded, prompts, search>>

-----------------------------------------------------------------------------
(* Searches.                                                               *)

\* The hourly quota (RateLimit) may refuse it.
BeginSearch ==
    \/ search' = [NoSearch EXCEPT !.pc = "collect"]
    \/ UNCHANGED search

SearchPreset ==
    /\ TakeUpdate
    /\ BeginSearch
    /\ UNCHANGED <<mark, graded, memory, prompts, faults>>

NewestFirst(S) == Ranked([v \in S |-> {w \in S : w > v}])

\* Good targets before adjacent ones, and unscored vacancies before all that
\* have a score, each group newest first.
Candidates(found) ==
    LET shown       == {v \in found : mark[v] # "hidden"}
        group(S, f) == NewestFirst({v \in shown \cap S : Fit[v] = f})
        new         == Posting \ graded
    IN  group(new, "high") \o group(new, "medium") \o group(graded, "high") \o group(graded, "medium")

\* The providers have answered; scores and clicks of the user are read now.
Collect(found) ==
    /\ search.pc = "collect"
    /\ LET chosen == Candidates(found) IN
       search' = IF chosen = <<>> THEN NoSearch
                 ELSE [pc |-> "score",
                       candidates |-> UpTo(chosen, MaxScored)]
    /\ UNCHANGED <<mark, graded, memory, prompts, updates, faults>>

\* The model has scored some of the candidates; the best are listed.
Listed(scored) ==
    LET at(v) == CHOOSE i \in DOMAIN search.candidates : search.candidates[i] = v
    IN  UpTo(BestFirst([v \in {w \in scored : Grade[w] >= 40} |-> at(v)]), MaxListed)

ScoreAndShow(scored) ==
    /\ search.pc = "score" /\ scored \subseteq ToSet(search.candidates)
    /\ graded' = graded \cup scored
    /\ ShowList(Listed(scored))
    /\ search' = NoSearch
    /\ UNCHANGED <<mark, prompts, updates>>

-----------------------------------------------------------------------------
(* Prompts and texts.                                                      *)

OpenCustomSearch ==
    /\ TakeUpdate
    /\ awaiting' = TRUE
    /\ UNCHANGED <<mark, graded, memory, editing, search, faults>>

OpenProfileField(f) ==
    /\ TakeUpdate
    /\ editing' = f
    /\ UNCHANGED <<mark, graded, memory, awaiting, search, faults>>

\* The profile's field takes the text (Embedding's EditOnly); one that is too
\* long closes the prompt all the same.
CloseField ==
    /\ editing # NoField /\ editing' = NoField
    /\ UNCHANGED <<awaiting, search>>

\* The prompt is closed before the quota is looked at.
TextSearch ==
    /\ awaiting /\ awaiting' = FALSE
    /\ BeginSearch
    /\ UNCHANGED editing

\* _text_router: an open profile field comes first, whichever prompt was opened
\* last; without a prompt the bot does not answer.
TypeText ==
    /\ TakeUpdate
    /\ \/ CloseField
       \/ editing = NoField /\ TextSearch
       \/ editing = NoField /\ ~awaiting /\ UNCHANGED <<prompts, search>>
    /\ UNCHANGED <<mark, graded, memory, faults>>

-----------------------------------------------------------------------------

\* The user deals with a vacancy, here or on the dashboard (Tracker).
MarkPosting(v, m) ==
    /\ updates < MaxUpdates /\ updates' = updates + 1
    /\ m # mark[v] /\ mark' = [mark EXCEPT ![v] = m]
    /\ UNCHANGED <<graded, memory, prompts, search, faults>>

\* The process restarts: what the bot remembers is gone, and the search too.
RestartBot ==
    /\ faults < MaxFaults /\ faults' = faults + 1
    /\ list' = <<>> /\ page' = 0 /\ cards' = <<>> /\ failed' = 0
    /\ editing' = NoField /\ awaiting' = FALSE
    /\ search' = NoSearch
    /\ UNCHANGED <<mark, graded, updates>>

BotNext ==
    \/ ShowMore \/ SearchPreset \/ OpenCustomSearch \/ TypeText \/ RestartBot
    \/ \E least \in {0, 40, 70} : Inbox(least)
    \/ \E S \in SUBSET Posting : Collect(S) \/ ScoreAndShow(S)
    \/ \E f \in ProfileField : OpenProfileField(f)
    \/ \E v \in Posting, m \in {"open", "hidden", "withdrawn"} : MarkPosting(v, m)

BotSpec == BotInit /\ [][BotNext]_botVars

-----------------------------------------------------------------------------
(* Properties.                                                             *)

BotTypeOK ==
    /\ mark \in [Posting -> {"open", "hidden", "withdrawn"}] /\ graded \subseteq Posting
    /\ list \in Seq(Posting) /\ page \in 0 .. MaxUpdates
    /\ editing \in ProfileField \cup {NoField} /\ awaiting \in BOOLEAN
    /\ search \in [pc : {"none", "collect", "score"}, candidates : Seq(Posting)]
    /\ cards \in Seq(1 .. Len(list)) /\ failed \in 0 .. MaxFaults
    /\ updates \in 0 .. MaxUpdates /\ faults \in 0 .. MaxFaults

\* Whichever button is pressed, and after whatever search, inbox or restart,
\* no card of a list is sent twice or before a better one, and of the pages
\* counted as shown the user misses at most one for each that Telegram refused:
\* show_more_handler counts a page before it sends it and never sends it again.
EachCardOnce ==
    /\ \A i \in 1 .. Len(cards) - 1 : cards[i] < cards[i + 1]
    /\ Cardinality({i \in DOMAIN list : i <= (page + 1) * PageSize} \ ToSet(cards))
         <= PageSize * failed
=============================================================================
