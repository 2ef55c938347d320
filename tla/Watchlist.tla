------------------------------ MODULE Watchlist ------------------------------
(***************************************************************************)
(* The watchers of a dataset and the notices they get when a version goes  *)
(* on the market: the asynchronous announcement of review.go, the          *)
(* watchlist service and repository, and the notification service with its *)
(* idempotent e-mail log (watchlist/service.go, watchlist/repo.go,         *)
(* notification/service.go, notification/preferences.go).                  *)
(*                                                                         *)
(* Nothing here is tried again: a list that fails, a notice or a mark that *)
(* is not written and a goroutine that dies with the process are logged at *)
(* most.  Every such step is an action beside the one that succeeds, and   *)
(* the history sets missed, noticeLoose and mailLoose name whom it hit.    *)
(***************************************************************************)
EXTENDS Naturals

CONSTANTS
    Watchers,        \* users
    LastVersion,     \* bound on the dataset's versions, numbered from 1
    Announcements    \* reviews, each with its goroutine of NotifyDatasetPublished

ASSUME WatchConstants == LastVersion \in Nat \ {0}

Versions == 1 .. LastVersion
NotWatching == 0

VARIABLES
    market,      \* datasets.status and current_version_id
    watch,       \* last_notified_version_id of each watcher, 0 without a row
    adding,      \* Add calls that have read the status
    stage,       \* each review and its announcement: the next statement
    about,       \* the version the review read
    todo, told,  \* the watchers the announcement still has to tell, and to mark
    notices,     \* in-app notices of each watcher for each version
    mailer,      \* the e-mail goroutine of each announcement and watcher
    mailLog,     \* watchers with a row in the e-mail log for this dataset
    mails,       \* e-mails each watcher got
    \* history
    cleared,    \* versions a review approved
    joined,      \* the version that was current when the watch row was written
    missed,      \* watcher and version of notices lost to a fault or a preference
    noticeLoose, \* watchers whose marks overlapped, came late or were not written
    mailLoose    \* watchers whose log lookups overlapped or failed, or with no log written

listing   == <<stage, about, todo, told>>
mailing   == <<mailer, mailLog, mails, mailLoose>>
watchVars == <<market, watch, adding, listing, notices, mailing, cleared, joined, missed,
               noticeLoose>>

WatchTypeOK ==
    /\ market \in [status: {"checking", "reviewing", "published", "rejected"}, version: Versions]
    /\ watch \in [Watchers -> 0 .. LastVersion] /\ joined \in [Watchers -> 0 .. LastVersion]
    /\ adding \subseteq Watchers
    /\ stage \in [Announcements -> {"idle", "decide", "list", "tell", "over"}]
    /\ about \in [Announcements -> 0 .. LastVersion]
    /\ todo \in [Announcements -> SUBSET Watchers] /\ told \in [Announcements -> SUBSET Watchers]
    /\ notices \in [Watchers -> [Versions -> Nat]]
    /\ mailer \in [Announcements -> [Watchers -> {"none", "start", "send", "log", "done"}]]
    /\ mails \in [Watchers -> Nat]
    /\ cleared \subseteq Versions /\ missed \subseteq Watchers \X Versions
    /\ mailLog \subseteq Watchers /\ noticeLoose \subseteq Watchers /\ mailLoose \subseteq Watchers

WatchInit ==
    /\ market = [status |-> "published", version |-> 1]
    /\ watch = [u \in Watchers |-> NotWatching] /\ joined = [u \in Watchers |-> NotWatching]
    /\ stage = [n \in Announcements |-> "idle"] /\ about = [n \in Announcements |-> 0]
    /\ todo = [n \in Announcements |-> {}] /\ told = [n \in Announcements |-> {}]
    /\ notices = [u \in Watchers |-> [v \in Versions |-> 0]]
    /\ mailer = [n \in Announcements |-> [u \in Watchers |-> "none"]]
    /\ mails = [u \in Watchers |-> 0]
    /\ adding = {} /\ mailLog = {} /\ cleared = {} /\ missed = {}
    /\ noticeLoose = {} /\ mailLoose = {}

Step(n, from, to) == stage[n] = from /\ stage' = [stage EXCEPT ![n] = to]

-----------------------------------------------------------------------------
\* The dataset, as DatasetQuality has it.

NewVersion ==
    /\ market.version < LastVersion
    /\ market' = [status |-> "checking", version |-> market.version + 1]
    /\ UNCHANGED <<watch, adding, listing, notices, mailing, cleared, joined, missed, noticeLoose>>

\* A quality job sets the status without looking at it, a late one after a review.
ChecksPass ==
    /\ market' = [market EXCEPT !.status = "reviewing"]
    /\ UNCHANGED <<watch, adding, listing, notices, mailing, cleared, joined, missed, noticeLoose>>

\* Review reads the dataset ...
StartReview(n) ==
    /\ Step(n, "idle", "decide") /\ market.status = "reviewing"
    /\ about' = [about EXCEPT ![n] = market.version]
    /\ UNCHANGED <<market, watch, adding, todo, told, notices, mailing, cleared, joined, missed,
                   noticeLoose>>

\* ... and sets the status, whatever it is by then.  An approval announces the
\* version that was read.
Approve(n) ==
    /\ Step(n, "decide", "list")
    /\ market' = [market EXCEPT !.status = "published"]
    /\ cleared' = cleared \cup {about[n]}
    /\ UNCHANGED <<watch, adding, about, todo, told, notices, mailing, joined, missed, noticeLoose>>

Reject(n) ==
    /\ Step(n, "decide", "over")
    /\ market' = [market EXCEPT !.status = "rejected"]
    /\ UNCHANGED <<watch, adding, about, todo, told, notices, mailing, cleared, joined, missed,
                   noticeLoose>>

-----------------------------------------------------------------------------
\* Add reads the status, then inserts the row with the version that is current.

AddReads(u) ==
    /\ u \notin adding /\ watch[u] = NotWatching /\ market.status = "published"
    /\ adding' = adding \cup {u}
    /\ UNCHANGED <<market, watch, listing, notices, mailing, cleared, joined, missed, noticeLoose>>

Add(u) ==
    /\ u \in adding
    /\ adding' = adding \ {u}
    /\ watch' = [watch EXCEPT ![u] = market.version]
    /\ joined' = [joined EXCEPT ![u] = market.version]
    /\ UNCHANGED <<market, listing, notices, mailing, cleared, missed, noticeLoose>>

RemoveWatch(u) ==
    /\ watch[u] # NotWatching
    /\ watch' = [watch EXCEPT ![u] = NotWatching]
    /\ joined' = [joined EXCEPT ![u] = NotWatching]
    /\ UNCHANGED <<market, adding, listing, notices, mailing, cleared, missed, noticeLoose>>

-----------------------------------------------------------------------------
\* NotifyDatasetPublished.

\* Mutants: only the watchers already told are listed; the told ones are not skipped.
ListTold(v) == {u \in Watchers : watch[u] = v}
ListEveryone(v) == {u \in Watchers : watch[u] # NotWatching}

ListByDataset(v) == {u \in Watchers : watch[u] \notin {NotWatching, v}}

\* The watchers whose marks another announcement may be about to write, and, when a
\* newer version is there by now, all.
Unsettled(n, listed) ==
    {u \in listed : \/ about[n] # market.version
                    \/ \E k \in Announcements \ {n} : u \in todo[k] \cup told[k]}

ListWatchers(n) ==
    /\ Step(n, "list", "tell")
    /\ todo' = [todo EXCEPT ![n] = ListByDataset(about[n])]
    /\ noticeLoose' = noticeLoose \cup Unsettled(n, ListByDataset(about[n]))
    /\ UNCHANGED <<market, watch, adding, about, told, notices, mailing, cleared, joined, missed>>

\* The query fails and nobody is told.
ListFails(n) ==
    /\ Step(n, "list", "over")
    /\ missed' = missed \cup (Watchers \X {about[n]})
    /\ UNCHANGED <<market, watch, adding, about, todo, told, notices, mailing, cleared, joined,
                   noticeLoose>>

\* NotifyUser: the in-app row, or none (the watcher turned it off, or the insert
\* failed); and an e-mail goroutine, if the watcher wants mail.
NotifyUser(n, u) ==
    /\ stage[n] = "tell" /\ u \in todo[n] /\ told[n] = {}
    /\ todo' = [todo EXCEPT ![n] = @ \ {u}] /\ told' = [told EXCEPT ![n] = {u}]
    /\ \/ notices' = [notices EXCEPT ![u][about[n]] = @ + 1] /\ UNCHANGED missed
       \/ missed' = missed \cup {<<u, about[n]>>} /\ UNCHANGED notices
    /\ \E m \in {"start", "none"} : mailer' = [mailer EXCEPT ![n][u] = m]
    /\ UNCHANGED <<market, watch, adding, stage, about, mailLog, mails, mailLoose, cleared, joined,
                   noticeLoose>>

\* The mark is written whether or not there was a notice.
MarkNotified(n, u) ==
    /\ stage[n] = "tell" /\ u \in told[n]
    /\ told' = [told EXCEPT ![n] = {}]
    /\ watch' = IF watch[u] = NotWatching THEN watch ELSE [watch EXCEPT ![u] = about[n]]
    /\ UNCHANGED <<market, adding, stage, about, todo, notices, mailing, cleared, joined, missed,
                   noticeLoose>>

MarkFails(n, u) ==
    /\ stage[n] = "tell" /\ u \in told[n]
    /\ told' = [told EXCEPT ![n] = {}]
    /\ noticeLoose' = noticeLoose \cup {u}
    /\ UNCHANGED <<market, watch, adding, stage, about, todo, notices, mailing, cleared, joined,
                   missed>>

AnnouncementEnds(n) ==
    /\ Step(n, "tell", "over") /\ todo[n] = {} /\ told[n] = {}
    /\ UNCHANGED <<market, watch, adding, about, todo, told, notices, mailing, cleared, joined,
                   missed, noticeLoose>>

-----------------------------------------------------------------------------
\* sendEmailWithLog: the key is the user, the dataset and the kind of notice.

BesideAnother(u) == \E k \in Announcements : mailer[k][u] \in {"send", "log"}

\* A lookup that fails counts as a key that is not there.
HasKey(n, u) ==
    /\ mailer[n][u] = "start"
    /\ \/ mailer' = [mailer EXCEPT ![n][u] = IF u \in mailLog THEN "done" ELSE "send"]
          /\ mailLoose' = mailLoose \cup {x \in {u} : BesideAnother(x) /\ x \notin mailLog}
       \/ mailer' = [mailer EXCEPT ![n][u] = "send"]
          /\ mailLoose' = mailLoose \cup {x \in {u} : BesideAnother(x) \/ x \in mailLog}
    /\ UNCHANGED <<market, watch, adding, listing, notices, mailLog, mails, cleared, joined,
                   missed, noticeLoose>>

Send(n, u) ==
    /\ mailer[n][u] = "send"
    /\ mailer' = [mailer EXCEPT ![n][u] = "log"]
    /\ \/ mails' = [mails EXCEPT ![u] = @ + 1]
       \/ UNCHANGED mails       \* the provider refuses, or there is no address
    /\ UNCHANGED <<market, watch, adding, listing, notices, mailLog, mailLoose, cleared, joined,
                   missed, noticeLoose>>

\* A row that is not written is not tried again: the next approval mails again.
Log(n, u) ==
    /\ mailer[n][u] = "log"
    /\ mailer' = [mailer EXCEPT ![n][u] = "done"]
    /\ \/ mailLog' = mailLog \cup {u} /\ UNCHANGED mailLoose
       \/ mailLoose' = mailLoose \cup {u} /\ UNCHANGED mailLog
    /\ UNCHANGED <<market, watch, adding, listing, notices, mails, cleared, joined, missed,
                   noticeLoose>>

-----------------------------------------------------------------------------
\* The process dies with its requests and goroutines; no row says what was left.
ProcessDies ==
    /\ stage' = [n \in Announcements |-> IF stage[n] = "idle" THEN "idle" ELSE "over"]
    /\ todo' = [n \in Announcements |-> {}] /\ told' = [n \in Announcements |-> {}]
    /\ adding' = {}
    /\ mailer' = [n \in Announcements |->
                    [u \in Watchers |-> IF mailer[n][u] = "none" THEN "none" ELSE "done"]]
    /\ missed' = missed \cup {w \in Watchers \X Versions : \E n \in Announcements :
                                 about[n] = w[2] /\ (stage[n] = "list" \/ w[1] \in todo[n])}
    /\ noticeLoose' = noticeLoose \cup UNION {told[n] : n \in Announcements}
    /\ mailLoose' = mailLoose \cup {u \in Watchers : \E n \in Announcements : mailer[n][u] = "log"}
    /\ UNCHANGED <<market, watch, about, notices, mailLog, mails, cleared, joined>>

AnnouncerStep(n) ==
    \/ ListWatchers(n) \/ ListFails(n) \/ AnnouncementEnds(n)
    \/ \E u \in Watchers : \/ NotifyUser(n, u) \/ MarkNotified(n, u) \/ MarkFails(n, u)
                           \/ HasKey(n, u) \/ Send(n, u) \/ Log(n, u)

WatchNext ==
    \/ NewVersion \/ ChecksPass \/ ProcessDies
    \/ \E u \in Watchers : AddReads(u) \/ Add(u) \/ RemoveWatch(u)
    \/ \E n \in Announcements : StartReview(n) \/ Approve(n) \/ Reject(n) \/ AnnouncerStep(n)

WatchFairness == \A n \in Announcements : WF_watchVars(AnnouncerStep(n))

WatchSpec == WatchInit /\ [][WatchNext]_watchVars /\ WatchFairness

-----------------------------------------------------------------------------
\* The mark in the watch row keeps a version approved twice from being told
\* twice (watchlist/service.go:66), unless the watcher's announcements
\* overlapped, one came after a newer version, or a mark was not written.
OneNotice == \A u \in Watchers \ noticeLoose : \A v \in Versions : notices[u][v] <= 1

\* The log key lets one e-mail through over all versions, unless two goroutines
\* of the watcher were past the lookup at once, a lookup failed beside a key
\* that was there, or no row was written after a mail (notification/service.go).
OneMail == \A u \in Watchers \ mailLoose : mails[u] <= 1

\* Who watched before a version was added is told when it is approved, has
\* stopped watching, or is among those a fault, a restart or the watcher's own
\* preference kept the notice from: a late announcement of an older version that
\* moves the mark back does not lose it, and there is no other way to miss it.
WatchersTold ==
    \A u \in Watchers : \A v \in Versions :
        (v \in cleared /\ watch[u] # NotWatching /\ joined[u] < v)
            ~> (notices[u][v] > 0 \/ watch[u] = NotWatching \/ <<u, v>> \in missed)

\* No watcher hears of a version twice, by notice or by mail, but in the ways named.
WatchInv == WatchTypeOK /\ OneNotice /\ OneMail
=============================================================================
