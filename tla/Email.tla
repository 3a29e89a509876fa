------------------------------- MODULE Email -------------------------------
(***************************************************************************)
(* email-service, with its default configuration: whom is a report mailed  *)
(* to, how often, and when is it done with?  Two loops of one process poll *)
(* the database: the aggregate one mails all new reports of a brand to the *)
(* brand's contacts, the brandless one mails physical reports without a    *)
(* brand one by one.  One brand is modelled: brands share no state.        *)
(*                                                                         *)
(* Time passes in days, the unit of the throttle; a wait is the number of  *)
(* days left, and a wait shorter than a day is none.                       *)
(***************************************************************************)
EXTENDS Integers, FiniteSets, FiniteSetsExt

CONSTANTS
  Branded, Brandless, \* reports with a brand name, and physical ones without
  Emails,             \* addresses
  OptingOut,          \* those who may opt out (a bound)
  Found,              \* contacts inferred for a report, once they are found
  Areas,              \* areas of the map
  AreasOf,            \* those a report lies in; areas may overlap
  ContactsOf,         \* contacts of an area, once listed
  NoArea,             \* none of them
  Nowhere,            \* reports at (0, 0)
  ThrottleDays,       \* EMAIL_THROTTLE_DAYS
  MaxDaily,           \* MAX_DAILY_EMAILS_PER_BRAND
  MaxDeferrals,       \* ContactDiscoveryMaxRetries
  BaseHours,          \* NoValidEmailsBaseHours
  MaxBackoffHours,    \* NoValidEmailsMaxBackoffHours
  MaxRetries,         \* NoValidEmailsMaxRetries
  MaxFaults           \* failures and crashes (a bound)

Reports == Branded \cup Brandless
Loops == {"aggregate", "brandless"}
MaxWait == Max({ThrottleDays, MaxBackoffHours \div 24, 1})

ASSUME ConstantsAssumption ==
  /\ Branded \cap Brandless = {}
  /\ IsFiniteSet(Reports)
  /\ OptingOut \subseteq Emails
  /\ Found \in [Reports -> SUBSET Emails]
  /\ AreasOf \in [Reports -> SUBSET Areas]
  /\ ContactsOf \in [Areas -> SUBSET Emails]
  /\ NoArea \notin Areas
  /\ Nowhere \subseteq Reports
  /\ ThrottleDays \in Nat \ {0}
  /\ {MaxDaily, MaxRetries, BaseHours, MaxBackoffHours} \subseteq Nat \ {0}
  /\ {MaxDeferrals, MaxFaults} \subseteq Nat

VARIABLES
  visible,    \* analysed reports that are public
  found,      \* reports whose contacts have been inferred
  listed,     \* areas with contacts who consent
  optedOut,   \* opted_out_emails
  processed,  \* sent_reports_emails
  wait,       \* email_report_retry: days to the next attempt,
  count,      \* and retry_count, 0 without a row, up to MaxCount (a bound)
  throttle,   \* brand_email_throttle: days left, by loop and address
  delivered,  \* report_email_deliveries
  job,        \* the mailing a loop is at
  pushed,     \* what the reporter's devices were told
  quiet,      \* history: days left since an address was really sent a mail
  pestered,   \* history: loop and address of mails sent before that was over
  slipped,    \* history: loop and address of mails not recorded, or unchecked
  told,       \* history: report, address and area, or none, of every mail
  twice,      \* history: those that were sent twice
  botched,    \* history: reports of mailings that failed in part
  faults      \* history: failures so far

rows == <<visible, found, listed, optedOut>>
schedule == <<processed, wait, count, pushed>>
records == <<throttle, delivered>>
past == <<quiet, pestered, slipped, told, twice, botched>>
vars == <<rows, schedule, records, job, past, faults>>

MaxCount == Max({MaxRetries, MaxDeferrals}) + 1

\* via: the area whose contacts are mailed, if any; areas: those to mail yet.
Idle == [at |-> "idle", reports |-> {}, to |-> {}, via |-> NoArea, areas |-> {}]
Mails == Reports \X Emails \X (Areas \cup {NoArea})

TypeOK ==
  /\ visible \subseteq Reports
  /\ found \subseteq Reports
  /\ listed \subseteq Areas
  /\ optedOut \subseteq Emails
  /\ processed \subseteq Reports
  /\ wait \in [Reports -> 0 .. MaxWait]
  /\ count \in [Reports -> 0 .. MaxCount]
  /\ throttle \in [Loops -> [Emails -> 0 .. ThrottleDays]]
  /\ delivered \subseteq Reports \X Emails
  /\ job \in [Loops -> [at : {"idle", "areas", "sending", "recording", "marking"},
                        reports : SUBSET Reports, to : SUBSET Emails,
                        via : Areas \cup {NoArea}, areas : SUBSET Areas]]
  /\ pushed \in [Reports -> {"nothing", "sent", "processed_no_delivery"}]
  /\ quiet \in [Loops -> [Emails -> 0 .. ThrottleDays]]
  /\ {pestered, slipped} \subseteq SUBSET (Loops \X Emails)
  /\ {told, twice} \subseteq SUBSET Mails
  /\ botched \subseteq Reports
  /\ faults \in 0 .. MaxFaults

\* Some reports may be done with already.
Init ==
  /\ visible = {}
  /\ found = {}
  /\ listed = {}
  /\ optedOut = {}
  /\ processed \in SUBSET Reports
  /\ wait = [r \in Reports |-> 0]
  /\ count = [r \in Reports |-> 0]
  /\ throttle = [l \in Loops |-> [e \in Emails |-> 0]]
  /\ delivered = {}
  /\ job = [l \in Loops |-> Idle]
  /\ pushed = [r \in Reports |-> "nothing"]
  /\ quiet = [l \in Loops |-> [e \in Emails |-> 0]]
  /\ pestered = {}
  /\ slipped = {}
  /\ told = {}
  /\ twice = {}
  /\ botched = {}
  /\ faults = 0

\* Nothing goes wrong, or something does.
Faultless(fine) ==
  IF fine THEN UNCHANGED faults ELSE faults < MaxFaults /\ faults' = faults + 1

(***************************************************************************)
(* The world around.  What happens to a report that is done with matters    *)
(* no more, and is left out.                                               *)
(***************************************************************************)

Publish(r) ==
  /\ r \notin visible \cup processed
  /\ visible' = visible \cup {r}
  /\ UNCHANGED <<found, listed, optedOut, schedule, records, job, past, faults>>

Quarantine(r) ==
  /\ r \in visible \ processed
  /\ visible' = visible \ {r}
  /\ UNCHANGED <<found, listed, optedOut, schedule, records, job, past, faults>>

\* The enrichment of the analysis finds contacts.
FindContacts(r) ==
  /\ r \notin found \cup processed
  /\ found' = found \cup {r}
  /\ UNCHANGED <<visible, listed, optedOut, schedule, records, job, past, faults>>

\* The contacts of an area consent to being mailed.
ListContacts(a) ==
  /\ ContactsOf[a] # {}
  /\ a \notin listed
  /\ \E r \in Reports \ processed : a \in AreasOf[r]
  /\ listed' = listed \cup {a}
  /\ UNCHANGED <<visible, found, optedOut, schedule, records, job, past, faults>>

AddOptedOutEmail(e) ==
  /\ e \in OptingOut \ optedOut
  /\ optedOut' = optedOut \cup {e}
  /\ UNCHANGED <<visible, found, listed, schedule, records, job, past, faults>>

Earlier(n) == IF n = 0 THEN 0 ELSE n - 1

Day ==
  /\ wait' = [r \in Reports |-> Earlier(wait[r])]
  /\ throttle' = [l \in Loops |-> [e \in Emails |-> Earlier(throttle[l][e])]]
  /\ quiet' = [l \in Loops |-> [e \in Emails |-> Earlier(quiet[l][e])]]
  /\ UNCHANGED <<rows, processed, count, pushed, delivered, job, pestered, slipped,
                 told, twice, botched, faults>>

(***************************************************************************)
(* Choosing what to mail, and to whom.                                     *)
(***************************************************************************)

\* Slip: reports that are done with are mailed again.
DueForEver(r) == r \in visible /\ wait[r] = 0

Due(r) == r \in visible /\ r \notin processed /\ wait[r] = 0

Contacts(r) == IF r \in found THEN Found[r] ELSE {}

ListedAreas(r) == AreasOf[r] \cap listed

\* scheduleReportRetry, for reports without a contact and for others: the
\* former back off exponentially after the first time, and count no further
\* than MaxRetries.
ExpCap == CHOOSE n \in 0 .. 30 :
            /\ n = 30 \/ BaseHours * 2^n >= MaxBackoffHours
            /\ \A m \in 0 .. n - 1 : BaseHours * 2^m < MaxBackoffHours

Backoff(n) == IF n = 0 THEN 0
              ELSE Min({BaseHours * 2^Min({n, ExpCap}), MaxBackoffHours}) \div 24

RetryNoContact(S) ==
  /\ wait' = [r \in Reports |-> IF r \in S THEN Backoff(count[r]) ELSE wait[r]]
  /\ count' = [r \in Reports |-> IF r \in S /\ count[r] < MaxRetries
                                 THEN count[r] + 1 ELSE count[r]]

RetryIn(S, days) ==
  /\ wait' = [r \in Reports |-> IF r \in S THEN days ELSE wait[r]]
  /\ count' = [r \in Reports |-> IF r \in S THEN Min({count[r] + 1, MaxCount})
                                 ELSE count[r]]

\* Slip: the date is not asked for.
MailedEver == {e \in Emails : \E r \in Branded : <<r, e, NoArea>> \in told}

\* The addresses sent to today, as getDailyEmailCount has it.
MailedToday == {e \in Emails : throttle["aggregate"][e] = ThrottleDays}

\* MAX(inferred_contact_emails): the contacts of one report of the group, if
\* any of them has some.
GroupContacts(S) == LET some == {Contacts(r) : r \in S} \ {{}}
                    IN IF some = {} THEN {{}} ELSE some

\* ProcessBrandNotifications up to the sending.  A check that fails leaves its
\* address out; an opt-out check that fails counts as no contact, a throttle
\* check that fails as a reason to retry in half an hour.
ProcessBrandNotifications ==
  LET S == {r \in Branded : Due(r)}
  IN /\ job["aggregate"].at = "idle"
     /\ S # {}
     /\ UNCHANGED <<rows, processed, pushed, records, quiet, pestered, slipped, told,
                    twice, botched>>
     /\ IF Cardinality(MailedToday) >= MaxDaily
        THEN RetryIn(S, 1) /\ UNCHANGED <<job, faults>>
        ELSE \E C \in GroupContacts(S), unread \in SUBSET Emails,
                unchecked \in SUBSET Emails :
          LET wanted == {e \in C : e \notin optedOut \cup unread}
              held == {e \in wanted \ unchecked : throttle["aggregate"][e] > 0}
              to == wanted \ (held \cup unchecked)
          IN /\ unread \subseteq C /\ unchecked \subseteq wanted
             /\ Faultless(unread = {} /\ unchecked = {})
             /\ \/ /\ to # {}
                   /\ job' = [job EXCEPT !["aggregate"] =
                                [Idle EXCEPT !.at = "sending", !.reports = S,
                                             !.to = to]]
                   /\ UNCHANGED <<wait, count>>
                \/ /\ to = {} /\ held # {}
                   /\ RetryIn(S, Min({throttle["aggregate"][e] : e \in held}))
                   /\ UNCHANGED job
                \/ /\ to = {} /\ held = {} /\ unchecked # {}
                   /\ RetryIn(S, 0)
                   /\ UNCHANGED job
                \/ /\ wanted = {}
                   /\ RetryNoContact(S)
                   /\ UNCHANGED job

Start(r, at, to, areas) ==
  job' = [job EXCEPT !["brandless"] =
            [Idle EXCEPT !.at = at, !.reports = {r}, !.to = to, !.areas = areas]]

\* Slip: without the throttle.
UseInferredUnthrottled(r) ==
  /\ Contacts(r) # {}
  /\ UNCHANGED <<wait, count>>
  /\ \E unread, unchecked \in SUBSET Contacts(r) :
       LET to == Contacts(r) \ (optedOut \cup unread)
       IN /\ Faultless(unread = {} /\ unchecked = {})
          /\ slipped' = slipped \cup ({"brandless"} \X unchecked)
          /\ Start(r, IF to = {} THEN "marking" ELSE "sending", to, {})

\* processReport for a report that has contacts: those who have not opted out
\* and were not mailed about a report without a brand lately.  A throttle
\* check that fails lets the address through.
UseInferredContacts(r) ==
  /\ Contacts(r) # {}
  /\ UNCHANGED <<wait, count>>
  /\ \E unread, unchecked \in SUBSET Contacts(r) :
       LET to == {e \in Contacts(r) \ (optedOut \cup unread) :
                    throttle["brandless"][e] = 0 \/ e \in unchecked}
       IN /\ Faultless(unread = {} /\ unchecked = {})
          /\ slipped' = slipped \cup ({"brandless"} \X unchecked)
          /\ Start(r, IF to = {} THEN "marking" ELSE "sending", to, {})

\* For one that has none, unless it lies nowhere: the contacts of each of its areas.
UseAreas(r) ==
  /\ Contacts(r) = {} /\ r \notin Nowhere /\ ListedAreas(r) # {}
  /\ Start(r, "areas", {}, ListedAreas(r))
  /\ UNCHANGED <<wait, count, slipped, faults>>

\* Without them it is deferred, a bounded number of times.
NoRecipient(r) == Contacts(r) = {} /\ (r \in Nowhere \/ ListedAreas(r) = {})

\* Slip: without a bound.
DefersForEver(r) == NoRecipient(r) /\ r \notin Nowhere

Defers(r) == NoRecipient(r) /\ r \notin Nowhere /\ count[r] < MaxDeferrals

Defer(r) ==
  /\ Defers(r)
  /\ wait' = [wait EXCEPT ![r] = 0]
  /\ count' = [count EXCEPT ![r] = Min({@ + 1, MaxCount})]
  /\ UNCHANGED <<job, slipped, faults>>

GiveUp(r) ==
  /\ NoRecipient(r) /\ ~ Defers(r)
  /\ Start(r, "marking", {}, {})
  /\ UNCHANGED <<wait, count, slipped, faults>>

ProcessBrandlessReport(r) ==
  /\ job["brandless"].at = "idle"
  /\ Due(r)
  /\ UseInferredContacts(r) \/ UseAreas(r) \/ Defer(r) \/ GiveUp(r)
  /\ UNCHANGED <<rows, processed, pushed, records, quiet, pestered, told, twice,
                 botched>>

(***************************************************************************)
(* Mailing.                                                                *)
(***************************************************************************)

\* The areas of a report are mailed one after the other, in any order, and then the
\* report is marked.
Onward(areas) == IF areas = {} THEN "marking" ELSE "areas"

\* sendEmailsForArea: the contacts of an area who have not opted out, whoever was mailed
\* for another area.
SendEmailsForArea ==
  LET j == job["brandless"]
  IN /\ j.at = "areas"
     /\ \E a \in j.areas : \E unread \in SUBSET ContactsOf[a] :
          LET to == ContactsOf[a] \ (optedOut \cup unread)
              rest == j.areas \ {a}
          IN /\ Faultless(unread = {})
             /\ job' = [job EXCEPT !["brandless"] =
                  [j EXCEPT !.at = IF to = {} THEN Onward(rest) ELSE "sending",
                            !.to = to, !.via = a, !.areas = rest]]
     /\ UNCHANGED <<rows, schedule, records, past>>

Mailed(j, S) == j.reports \X S \X {j.via}

\* Mails to S that the throttle should know of, and does not: those for an area do not
\* count for it.
Unnoted(l, S) == IF job[l].via = NoArea THEN {l} \X S ELSE {}

\* SendGrid accepts the mail for some recipients.  If it does not for all, nothing is
\* recorded, and the aggregate loop retries the reports in half an hour; the brandless
\* one goes on, and marks its report all the same.
Send(l) ==
  LET j == job[l]
  IN /\ j.at = "sending"
     /\ \E ok \in SUBSET j.to :
          /\ Faultless(ok = j.to)
          /\ told' = told \cup Mailed(j, ok)
          /\ twice' = twice \cup (told \cap Mailed(j, ok))
          /\ IF j.via # NoArea
             THEN UNCHANGED <<quiet, pestered>>
             ELSE /\ quiet' = [quiet EXCEPT ![l] = [e \in Emails |->
                                 IF e \in ok THEN ThrottleDays ELSE @[e]]]
                  /\ pestered' = pestered \cup
                                 ({l} \X {e \in ok : quiet[l][e] > 0})
          /\ IF ok = j.to
             THEN /\ job' = [job EXCEPT ![l].at = "recording"]
                  /\ UNCHANGED <<wait, count, slipped, botched>>
             ELSE /\ slipped' = slipped \cup Unnoted(l, ok)
                  /\ botched' = botched \cup j.reports
                  /\ IF l = "aggregate"
                     THEN job' = [job EXCEPT ![l] = Idle] /\ RetryIn(j.reports, 0)
                     ELSE /\ job' = [job EXCEPT ![l].at = Onward(j.areas)]
                          /\ UNCHANGED <<wait, count>>
     /\ UNCHANGED <<rows, processed, pushed, records>>

\* Slip: deliveries to contacts of areas are not recorded.
RecordInferredOnly(l) ==
  LET j == job[l]
  IN /\ j.at = "recording"
     /\ \E done \in SUBSET j.to :
          /\ Faultless(done = j.to)
          /\ delivered' = delivered \cup
                            (IF j.via # NoArea THEN {} ELSE j.reports \X done)
          /\ IF j.via # NoArea
             THEN UNCHANGED throttle
             ELSE throttle' = [throttle EXCEPT ![l] = [e \in Emails |->
                                 IF e \in done THEN ThrottleDays ELSE @[e]]]
          /\ slipped' = slipped \cup Unnoted(l, j.to \ done)
          /\ botched' = botched \cup (IF done = j.to THEN {} ELSE j.reports)
     /\ job' = [job EXCEPT ![l].at = Onward(j.areas)]
     /\ UNCHANGED <<rows, schedule, quiet, pestered, told, twice>>

\* recordBrandEmailSent and recordReportEmailDelivery; failures are logged.
Record(l) ==
  LET j == job[l]
  IN /\ j.at = "recording"
     /\ \E done \in SUBSET j.to :
          /\ Faultless(done = j.to)
          /\ delivered' = delivered \cup (j.reports \X done)
          /\ IF j.via # NoArea
             THEN UNCHANGED throttle
             ELSE throttle' = [throttle EXCEPT ![l] = [e \in Emails |->
                                 IF e \in done THEN ThrottleDays ELSE @[e]]]
          /\ slipped' = slipped \cup Unnoted(l, j.to \ done)
          /\ botched' = botched \cup (IF done = j.to THEN {} ELSE j.reports)
     /\ job' = [job EXCEPT ![l].at = Onward(j.areas)]
     /\ UNCHANGED <<rows, schedule, quiet, pestered, told, twice>>

\* markReportAsProcessed, for all reports of the mailing, and the push to the
\* reporter; those that cannot be marked come again.
Mark(l) ==
  LET j == job[l]
  IN /\ j.at = "marking"
     /\ \E done \in SUBSET j.reports :
          /\ Faultless(done = j.reports)
          /\ processed' = processed \cup done
          /\ wait' = [r \in Reports |-> IF r \in done THEN 0 ELSE wait[r]]
          /\ count' = [r \in Reports |-> IF r \in done THEN 0 ELSE count[r]]
          /\ pushed' = [r \in Reports |->
               IF r \notin done THEN pushed[r]
               ELSE IF \E e \in Emails : <<r, e>> \in delivered THEN "sent"
               ELSE "processed_no_delivery"]
          /\ botched' = botched \cup (j.reports \ done)
     /\ job' = [job EXCEPT ![l] = Idle]
     /\ UNCHANGED <<rows, records, quiet, pestered, slipped, told, twice>>

\* The process is killed, in the midst of mailings of which some were told.
Crash ==
  /\ \E l \in Loops : job[l] # Idle
  /\ Faultless(FALSE)
  /\ slipped' = slipped \cup UNION {Unnoted(l, job[l].to) :
                  l \in {k \in Loops : job[k].at = "recording"}}
  /\ botched' = botched \cup {r \in UNION {job[l].reports : l \in Loops} :
                  \E m \in told : m[1] = r}
  /\ job' = [l \in Loops |-> Idle]
  /\ UNCHANGED <<rows, schedule, records, quiet, pestered, told, twice>>

Next ==
  \/ \E r \in Reports : Publish(r) \/ Quarantine(r) \/ FindContacts(r)
  \/ \E a \in Areas : ListContacts(a)
  \/ \E e \in Emails : AddOptedOutEmail(e)
  \/ Day
  \/ ProcessBrandNotifications
  \/ \E r \in Brandless : ProcessBrandlessReport(r)
  \/ SendEmailsForArea
  \/ \E l \in Loops : Send(l) \/ Record(l) \/ Mark(l)
  \/ Crash

Spec == Init /\ [][Next]_vars

\* Both loops poll for ever, and days pass.
Fairness ==
  /\ WF_vars(Day)
  /\ WF_vars(ProcessBrandNotifications)
  /\ \A r \in Brandless : WF_vars(ProcessBrandlessReport(r))
  /\ WF_vars(SendEmailsForArea)
  /\ \A l \in Loops : WF_vars(Send(l) \/ Record(l) \/ Mark(l))

FairSpec == Spec /\ Fairness

(***************************************************************************)
(* Properties.                                                             *)
(***************************************************************************)

\* An address is mailed twice within the throttle, for the brand or for
\* reports without one, only if an earlier mail went unrecorded or the check
\* failed open (email_service.go:124-173, :666-674).
PesteredOnlyIfSlipped == pestered \subseteq slipped

\* Unless the mailing of a report failed in part, or the report could not be marked, no
\* address is mailed twice as an inferred contact or twice for one area, and none that
\* is mailed as the one is mailed as the other (email_service.go:666-684, :730-799).
\* An address listed in two overlapping areas does get a mail for each of them.
ToldOnceUnlessBotched ==
  /\ \A m \in twice : m[1] \in botched
  /\ \A m, n \in told :
       m[1] = n[1] /\ m[2] = n[2] /\ m[3] = NoArea /\ n[3] # NoArea => m[1] \in botched

\* The reporter's devices are told that the report was sent only if it was, and
\* that it was not only if it was not, unless the mailing failed in part
\* (email_service.go:1328-1362).
PushHonest ==
  \A r \in Reports :
    LET mailed == \E m \in told : m[1] = r
    IN /\ pushed[r] = "sent" => mailed
       /\ (pushed[r] = "processed_no_delivery" /\ r \notin botched) => ~ mailed

\* Every physical report without a brand is done with in the end, mailed or not
\* (email_service.go:712-800).
BrandlessSettled ==
  \A r \in Brandless : (r \in visible) ~> (r \in processed \/ r \notin visible)

\* A report of a brand whose contacts are known is mailed in the end, whatever
\* was throttled or failed before, unless somebody opted out
\* (email_service.go:495-550, :569-684).
BrandedNotified ==
  \A r \in Branded :
    (r \in visible /\ r \in found)
      ~> (r \in processed \/ r \notin visible \/ optedOut # {})
=============================================================================
