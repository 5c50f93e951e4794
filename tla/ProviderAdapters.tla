-------------------------- MODULE ProviderAdapters --------------------------
(***************************************************************************)
(* What the engine can tell apart about a provider adapter                 *)
(* (internal/provider, HTTPAdapter and AsyncHTTPAdapter; the shared        *)
(* decoding helpers of internal/provider/adapters), and one definition for *)
(* every adapter of internal/provider/adapters.  An adapter is a record:   *)
(*   name, auth   slug and credential scheme                               *)
(*   cost         credits of every capability                              *)
(*   asks         the known fields its request is built from               *)
(*   caps         advertised field -> confidence expected (percent)        *)
(*   gives        decoded field -> confidences its decoder assigns         *)
(*   sure         fields its decoder fills from every body it accepts      *)
(*   refuses      classes a 2xx body may be decoded to                     *)
(*   poll, pends  submit-then-poll; whether a poll may answer "not yet"    *)
(*   noJob        class of a submission that yields nothing to poll        *)
(*   attempts     attempts its call policy allows                          *)
(* Field values are "blank" or "some"; which fields a body carries is left *)
(* open.                                                                   *)
(***************************************************************************)
EXTENDS Integers, FiniteSets, TLC

(* DefaultPolicy: the synchronous adapters are retried.                      *)
DefaultAttempts == 3

Sync(name, auth, cost, asks, caps) ==
    [name |-> name, auth |-> auth, cost |-> cost, asks |-> asks, caps |-> caps,
     gives |-> [f \in DOMAIN caps |-> {caps[f]}], sure |-> {}, refuses |-> {},
     poll |-> FALSE, pends |-> FALSE, noJob |-> "none", attempts |-> DefaultAttempts]

(* An asynchronous adapter's policy allows a single attempt.                 *)
Async(name, auth, cost, asks, caps, noJob) ==
    [Sync(name, auth, cost, asks, caps)
     EXCEPT !.poll = TRUE, !.pends = TRUE, !.noJob = noJob, !.attempts = 1]

(* The classes classifyErrMsg reads out of an error message.                 *)
ByMessage == {"quota", "rate_limit", "auth"}

(* A likelihood out of ten as a percentage.                                  *)
Tenths == {10 * k : k \in 0 .. 10}

-----------------------------------------------------------------------------
(* Decode.  A body is malformed, refuses, asks for patience, or carries      *)
(* values for some fields.                                                   *)

Failed(class) == [class |-> class, values |-> <<>>]

WrongStored(body) == DOMAIN body.fields

(* Only non-blank values become observations.                                *)
Stored(body) == {f \in DOMAIN body.fields : body.fields[f] # "blank"}

Decode(a, body) ==
    CASE body.kind = "malformed" -> Failed("bad_request")
      [] body.kind = "refusal"   -> Failed(body.class)
      [] body.kind = "pending"   -> Failed("pending")
      [] body.kind = "answer"    ->
            [class |-> "ok",
             values |-> [f \in (Stored(body) \cap DOMAIN a.gives) \cup a.sure |->
                            IF f \in Stored(body) THEN body.fields[f] ELSE "some"]]

(* The bodies a has to decode: of the answers, those with nothing, with      *)
(* everything, and with one of the fields in F, blank or not.                *)
Bodies(a, F) ==
    {[kind |-> "malformed"]}
    \cup {[kind |-> "refusal", class |-> c] : c \in a.refuses}
    \cup {[kind |-> "pending"] : x \in IF a.pends THEN {1} ELSE {}}
    \cup {[kind |-> "answer", fields |-> [f \in G |-> v]] :
              G \in {{}, DOMAIN a.gives} \cup {{f} : f \in F}, v \in {"blank", "some"}}

-----------------------------------------------------------------------------
\* Identity, e-mail finding, phone finding and orchestration providers.

(* Email-find *)

Hunter ==
    [Sync("hunter", "query", 10, {"company_domain", "first_name", "last_name"},
         [work_email |-> 85, email_status |-> 80])
     EXCEPT !.gives = [work_email |-> 0 .. 100, email_status |-> {90}] @@ @]

Prospeo ==
    [Sync("prospeo", "header", 8, {"company_domain", "first_name", "last_name"},
         [work_email |-> 82, email_status |-> 80])
     EXCEPT !.gives = [work_email |-> 0 .. 100, email_status |-> {85}] @@ @]

Apollo ==
    [Sync("apollo", "header", 9, {"company_domain", "company_name",
         "first_name", "full_name", "last_name", "linkedin_url", "work_email"},
         [work_email |-> 72, email_status |-> 90, linkedin_url |-> 85,
          job_title |-> 80, seniority |-> 78, full_name |-> 88,
          company_name |-> 85, company_domain |-> 85, employee_count |-> 72,
          industry |-> 75, office_phone |-> 70])
     EXCEPT !.gives = [work_email |-> {72, 90}] @@ @]

Lusha ==
    Sync("lusha", "header", 8, {"company_domain", "company_name", "first_name",
        "last_name", "linkedin_url", "work_email"},
        [work_email |-> 75, personal_email |-> 70, mobile_phone |-> 80,
         direct_dial |-> 75, job_title |-> 78, seniority |-> 75,
         department |-> 72, linkedin_url |-> 80, full_name |-> 85,
         company_name |-> 75, company_domain |-> 75])

Kaspr ==
    Sync("kaspr", "header", 8, {"full_name", "linkedin_url"},
        [work_email |-> 75, personal_email |-> 70, mobile_phone |-> 75,
         first_name |-> 80, last_name |-> 80, linkedin_url |-> 85])

ContactOut ==
    Sync("contactout", "header", 8, {"linkedin_url"},
        [work_email |-> 78, personal_email |-> 75, email_status |-> 72,
         mobile_phone |-> 80, linkedin_url |-> 90])

Findymail ==
    Sync("findymail", "bearer", 8, {"company_domain", "first_name", "full_name",
        "last_name"},
        [work_email |-> 80, full_name |-> 70, company_domain |-> 70])

VoilaNorbert ==
    Sync("voila-norbert", "basic", 1, {"company_domain", "full_name"},
        [work_email |-> 85, email_status |-> 90])

Kendo ==
    Sync("kendo", "query", 1, {"company_domain", "full_name"},
        [work_email |-> 90, personal_email |-> 90])

Evaboot ==
    Sync("evaboot", "bearer", 1, {"company_domain", "company_name",
        "first_name", "last_name"},
        [work_email |-> 75, email_status |-> 85, full_name |-> 95,
         first_name |-> 95, last_name |-> 95, company_name |-> 60,
         company_domain |-> 60])

Surfe ==
    Async("surfe", "bearer", 1, {"company_domain", "company_name", "first_name",
        "last_name", "linkedin_url"},
        [work_email |-> 85, email_status |-> 90, mobile_phone |-> 85,
         job_title |-> 85, seniority |-> 85, department |-> 85,
         linkedin_url |-> 85, first_name |-> 85, last_name |-> 85,
         company_name |-> 85, company_domain |-> 85], "transient")

Lemlist ==
    Async("lemlist", "basic", 5, {"company_domain", "company_name",
        "first_name", "job_title", "last_name", "linkedin_url"},
        [work_email |-> 85, email_status |-> 90], "transient")

Dropcontact ==
    Async("dropcontact", "header", 4, {"company_domain", "company_name",
        "first_name", "full_name", "last_name", "linkedin_url", "work_email"},
        [work_email |-> 90, email_status |-> 90, first_name |-> 90,
         last_name |-> 90, full_name |-> 80, company_name |-> 85,
         company_domain |-> 85, linkedin_url |-> 70,
         job_title |-> 60], "transient")

Icypeas ==
    [Async("icypeas", "header", 2, {"company_domain", "first_name",
         "last_name"},
         [work_email |-> 90, email_status |-> 85, first_name |-> 95,
          last_name |-> 95, full_name |-> 90], "transient")
     EXCEPT !.refuses = {"bad_request", "quota"}]

Enrow ==
    Async("enrow", "header", 2, {"company_domain", "company_name", "full_name"},
        [work_email |-> 95, email_status |-> 90, company_domain |-> 90,
         company_name |-> 80, first_name |-> 85, last_name |-> 85,
         full_name |-> 75], "transient")

Snov ==
    Async("snov", "oauth2_cc", 2, {"company_domain", "first_name", "last_name"},
        [work_email |-> 85, email_status |-> 80,
         full_name |-> 55], "transient")

LeadMagic ==
    Sync("leadmagic", "header", 3, {"company_domain", "company_name",
        "first_name", "full_name", "last_name"},
        [work_email |-> 85, email_status |-> 75, company_name |-> 75,
         employee_count |-> 65, industry |-> 65])

GetProspect ==
    Sync("getprospect", "header", 3, {"company_domain", "company_name",
        "first_name", "full_name", "last_name"},
        [work_email |-> 82, email_status |-> 78, company_domain |-> 70])

Skrapp ==
    Sync("skrapp", "header", 3, {"company_domain", "company_name", "first_name",
        "full_name", "last_name"},
        [work_email |-> 82, email_status |-> 78, first_name |-> 85,
         last_name |-> 85, full_name |-> 85, company_name |-> 70,
         company_domain |-> 75])

Tomba ==
    Sync("tomba", "dual_header", 3, {"company_domain", "company_name",
        "first_name", "full_name", "last_name"},
        [work_email |-> 85, email_status |-> 85, first_name |-> 90,
         last_name |-> 90, full_name |-> 90, company_name |-> 75,
         company_domain |-> 80, linkedin_url |-> 70])

Cufinder ==
    Sync("cufinder", "header", 5, {"company_name", "full_name"},
        [work_email |-> 80, first_name |-> 85, last_name |-> 85,
         full_name |-> 85, job_title |-> 80, linkedin_url |-> 80,
         company_name |-> 80, company_domain |-> 80, industry |-> 70,
         employee_count |-> 65])

UpLead ==
    Sync("uplead", "header", 4, {"company_domain", "first_name", "last_name",
        "work_email"},
        [work_email |-> 82, email_status |-> 80, mobile_phone |-> 72,
         linkedin_url |-> 80, job_title |-> 80, seniority |-> 75,
         company_name |-> 80, company_domain |-> 80, industry |-> 75,
         employee_count |-> 70, company_revenue |-> 70, first_name |-> 85,
         last_name |-> 85])

AdaptIO ==
    Sync("adapt-io", "dual_header", 4, {"company_domain", "first_name",
        "last_name", "linkedin_url", "work_email"},
        [work_email |-> 80, mobile_phone |-> 72, direct_dial |-> 70,
         linkedin_url |-> 80, job_title |-> 80, seniority |-> 75,
         company_name |-> 80, company_domain |-> 80, employee_count |-> 70,
         industry |-> 75, company_revenue |-> 70, first_name |-> 85,
         last_name |-> 85])

AeroLeads ==
    Sync("aeroleads", "query", 3, {"company_domain", "first_name", "last_name"},
        [work_email |-> 78, email_status |-> 72, full_name |-> 80,
         company_domain |-> 70])

SignalHire ==
    Sync("signalhire", "header", 3, {"linkedin_url"},
        [full_name |-> 90, work_email |-> 75, personal_email |-> 70,
         mobile_phone |-> 70, office_phone |-> 60, job_title |-> 70,
         company_name |-> 70, company_domain |-> 60, linkedin_url |-> 80])

Wiza ==
    Async("wiza", "bearer", 5, {"company_domain", "company_name", "full_name",
        "linkedin_url", "work_email"},
        [work_email |-> 85, email_status |-> 85, mobile_phone |-> 85,
         phone_status |-> 80, full_name |-> 95, job_title |-> 90,
         linkedin_url |-> 80, company_name |-> 90, company_domain |-> 90,
         employee_count |-> 80, industry |-> 75, company_type |-> 70,
         company_hq_city |-> 70, company_hq_country |-> 70,
         company_founded_year |-> 70,
         company_linkedin_url |-> 75], "transient")

RocketReach ==
    Async("rocketreach", "header", 3, {"company_name", "full_name", "job_title",
        "linkedin_url", "work_email"},
        [work_email |-> 85, personal_email |-> 80, email_status |-> 70,
         mobile_phone |-> 75, linkedin_url |-> 90, job_title |-> 90,
         company_name |-> 90, full_name |-> 90], "not_found")

AnymailFinder ==
    Sync("anymailfinder", "header", 9, {"company_domain", "company_name",
        "first_name", "full_name", "last_name", "linkedin_url"},
        [work_email |-> 85, email_status |-> 90, full_name |-> 40,
         job_title |-> 40])

Datagma ==
    Sync("datagma", "query", 9, {"company_domain", "company_name", "first_name",
        "full_name", "last_name"},
        [work_email |-> 80, email_status |-> 90, company_domain |-> 70])

-----------------------------------------------------------------------------
(* Identity *)

PeopleDataLabs ==
    [Sync("people-data-labs", "header", 6, {"company_domain", "first_name",
         "last_name", "linkedin_url", "work_email"},
         [work_email |-> 80, mobile_phone |-> 75, job_title |-> 82,
          linkedin_url |-> 85, full_name |-> 85, company_name |-> 82,
          company_domain |-> 82, industry |-> 75, employee_count |-> 70])
     EXCEPT !.gives = [f \in DOMAIN @ |-> {75} \cup Tenths]]

Coresignal ==
    Sync("coresignal", "header", 6, {"company_domain"},
        [company_name |-> 80, company_domain |-> 85, industry |-> 80,
         employee_count |-> 70, company_founded_year |-> 80,
         company_hq_country |-> 80, company_hq_city |-> 80,
         company_type |-> 80, company_linkedin_url |-> 80, naics |-> 80,
         sic |-> 80, funding_stage |-> 70])

EnrichSo ==
    Sync("enrich-so", "header", 10, {"work_email"},
        [full_name |-> 85, first_name |-> 85, last_name |-> 85,
         linkedin_url |-> 85, job_title |-> 80, company_name |-> 80])

Enformion ==
    [Sync("enformion", "dual_header", 3, {"first_name", "last_name",
         "mobile_phone", "work_email"},
         [first_name |-> 90, last_name |-> 90, mobile_phone |-> 65,
          phone_status |-> 80, personal_email |-> 70])
     EXCEPT !.refuses = {"bad_request"}]

Nymblr ==
    Sync("nymblr", "bearer", 3, {"company_name", "first_name", "last_name",
        "linkedin_url", "mobile_phone", "work_email"},
        [work_email |-> 90, personal_email |-> 65, mobile_phone |-> 65,
         direct_dial |-> 90, linkedin_url |-> 90, job_title |-> 90,
         seniority |-> 90, department |-> 65, first_name |-> 90,
         last_name |-> 90, full_name |-> 90, company_name |-> 90,
         company_domain |-> 90, company_linkedin_url |-> 90,
         employee_count |-> 85, company_revenue |-> 65, industry |-> 90,
         company_founded_year |-> 90, company_hq_country |-> 80,
         company_hq_city |-> 80, company_type |-> 90, company_phone |-> 90,
         naics |-> 90, sic |-> 70])

Amplemarket ==
    Async("amplemarket", "bearer", 2, {"company_domain", "company_name",
        "full_name", "job_title", "linkedin_url", "work_email"},
        [work_email |-> 90, mobile_phone |-> 85, direct_dial |-> 75,
         office_phone |-> 75, linkedin_url |-> 95, job_title |-> 90,
         first_name |-> 95, last_name |-> 95, full_name |-> 95,
         company_name |-> 90, company_domain |-> 65,
         company_linkedin_url |-> 90, employee_count |-> 90, industry |-> 80,
         company_revenue |-> 85, funding_stage |-> 85,
         company_founded_year |-> 90, company_hq_country |-> 75,
         company_hq_city |-> 75, company_type |-> 80, naics |-> 80, sic |-> 80,
         technographics |-> 75], "transient")

FullContact ==
    Sync("fullcontact", "bearer", 6, {"company_domain"},
        [company_name |-> 80, company_domain |-> 75,
         company_linkedin_url |-> 80, employee_count |-> 65,
         company_founded_year |-> 80, industry |-> 65, company_hq_city |-> 80,
         company_hq_country |-> 80, company_phone |-> 70, sic |-> 85,
         naics |-> 85])

Pipl ==
    Sync("pipl", "query", 6, {"first_name", "last_name", "work_email"},
        [full_name |-> 70, first_name |-> 70, last_name |-> 70,
         work_email |-> 70, personal_email |-> 65, linkedin_url |-> 70,
         mobile_phone |-> 60, job_title |-> 65, company_name |-> 60])

Versium ==
    Sync("versium", "header", 6, {"first_name", "last_name", "mobile_phone",
        "personal_email"},
        [first_name |-> 70, last_name |-> 70, personal_email |-> 70,
         mobile_phone |-> 70])

ReverseContact ==
    Sync("reverse-contact", "bearer", 4, {"company_domain", "company_name",
        "first_name", "last_name", "work_email"},
        [first_name |-> 80, last_name |-> 80, full_name |-> 78,
         job_title |-> 78, linkedin_url |-> 85, company_name |-> 75])

-----------------------------------------------------------------------------
(* Orchestration *)

BetterContact ==
    Async("bettercontact", "header", 5, {"company_domain", "company_name",
        "first_name", "last_name", "linkedin_url"},
        [work_email |-> 95, email_status |-> 95, first_name |-> 97,
         last_name |-> 97, job_title |-> 90], "transient")

FullEnrich ==
    [Async("fullenrich", "bearer", 12, {"company_domain", "company_name",
         "first_name", "last_name", "linkedin_url"},
         [work_email |-> 90, email_status |-> 90, personal_email |-> 85,
          mobile_phone |-> 85, linkedin_url |-> 90, job_title |-> 85,
          first_name |-> 95, last_name |-> 95, full_name |-> 95,
          company_name |-> 85, company_domain |-> 85, employee_count |-> 80,
          industry |-> 80, company_type |-> 80, company_founded_year |-> 80,
          company_hq_country |-> 80, company_hq_city |-> 80,
          company_linkedin_url |-> 80], "transient")
     EXCEPT !.refuses = {"provider_down", "quota"}]

-----------------------------------------------------------------------------
(* Phone-find *)

SalesIntel ==
    Sync("salesintel", "header", 8, {"company_domain", "first_name",
        "job_title", "last_name", "linkedin_url", "work_email"},
        [work_email |-> 80, personal_email |-> 75, mobile_phone |-> 85,
         direct_dial |-> 85, office_phone |-> 80, job_title |-> 78,
         seniority |-> 75, department |-> 75, linkedin_url |-> 75,
         full_name |-> 80, company_name |-> 65, company_domain |-> 65,
         industry |-> 65, naics |-> 65, sic |-> 65])

-----------------------------------------------------------------------------
Contacts ==
    {Hunter, Prospeo, Apollo, Lusha, Kaspr, ContactOut, Findymail,
     VoilaNorbert, Kendo, Evaboot, Surfe, Lemlist, Dropcontact, Icypeas, Enrow,
     Snov, LeadMagic, GetProspect, Skrapp, Tomba, Cufinder, UpLead, AdaptIO,
     AeroLeads, SignalHire, Wiza, RocketReach, AnymailFinder, Datagma,
     PeopleDataLabs, Coresignal, EnrichSo, Enformion, Nymblr, Amplemarket,
     FullContact, Pipl, Versium, ReverseContact, BetterContact, FullEnrich,
     SalesIntel}

-----------------------------------------------------------------------------
\* E-mail and phone verification providers.

(* Email-verify *)

NeverBounce ==
    Sync("neverbounce", "query", 3, {"work_email"},
        [email_status |-> 90])

Kickbox ==
    [Sync("kickbox", "query", 3, {"work_email"},
         [email_status |-> 90])
     EXCEPT !.gives = [email_status |-> 0 .. 100] @@ @]

ZeroBounce ==
    [Sync("zerobounce", "query", 2, {"work_email"},
         [email_status |-> 90, first_name |-> 70, last_name |-> 70])
     EXCEPT !.refuses = {"auth"}]

Emailable ==
    Sync("emailable", "query", 2, {"work_email"},
        [email_status |-> 90, first_name |-> 60, last_name |-> 60,
         full_name |-> 60])

Bouncer ==
    Sync("bouncer", "header", 2, {"work_email"},
        [email_status |-> 90])

MillionVerifier ==
    [Sync("millionverifier", "query", 2, {"work_email"},
         [email_status |-> 90])
     EXCEPT !.refuses = ByMessage]

Verifalia ==
    [Async("verifalia", "basic", 3, {"work_email"},
         [email_status |-> 95, work_email |-> 90], "transient")
     EXCEPT !.refuses = {"not_found"}]

BounceBan ==
    Sync("bounceban", "header", 2, {"work_email"},
        [email_status |-> 90])

Scrubby ==
    Sync("scrubby", "header", 2, {"work_email"},
        [email_status |-> 90])

Enrichley ==
    Sync("enrichley", "header", 2, {"work_email"},
        [email_status |-> 90])

Mailfloss ==
    Sync("mailfloss", "bearer", 2, {"work_email"},
        [email_status |-> 88])

DeBounce ==
    [Sync("debounce", "query", 2, {"work_email"},
         [email_status |-> 90])
     EXCEPT !.refuses = ByMessage]

Clearout ==
    [Sync("clearout", "bearer", 2, {"work_email"},
         [email_status |-> 90])
     EXCEPT !.refuses = ByMessage]

MailgunValidate ==
    Sync("mailgun-validate", "basic", 2, {"work_email"},
        [email_status |-> 90])

QuickEmailVerification ==
    [Sync("quickemailverification", "query", 1, {"work_email"},
         [email_status |-> 90, company_domain |-> 70])
     EXCEPT !.refuses = ByMessage]

MyEmailVerifier ==
    [Sync("myemailverifier", "query", 1, {"work_email"},
         [email_status |-> 90, work_email |-> 60])
     EXCEPT !.refuses = ByMessage]

MailboxValidator ==
    [Sync("mailboxvalidator", "query", 1, {"work_email"},
         [email_status |-> 90, work_email |-> 90, company_domain |-> 85])
     EXCEPT !.sure = {"email_status"},
            !.refuses = {"auth", "bad_request", "provider_down", "quota"}]

Bouncify ==
    Sync("bouncify", "query", 1, {"work_email"},
        [email_status |-> 90, work_email |-> 85])

EmailListVerify ==
    Sync("emaillistverify", "header", 1, {"work_email"},
        [email_status |-> 90, first_name |-> 65, last_name |-> 65])

Cloudmersive ==
    Sync("cloudmersive", "header", 1, {"work_email"},
        [email_status |-> 90, company_domain |-> 90])

AbstractEmail ==
    Sync("abstract-email", "query", 1, {"work_email"},
        [email_status |-> 90])

MailerCheck ==
    Sync("mailercheck", "bearer", 1, {"work_email"},
        [email_status |-> 90])

Reoon ==
    [Sync("reoon", "query", 1, {"work_email"},
         [email_status |-> 90, work_email |-> 90])
     EXCEPT !.refuses = ByMessage]

MailsSo ==
    [Sync("mails-so", "header", 1, {"work_email"},
         [email_status |-> 90, work_email |-> 90])
     EXCEPT !.refuses = ByMessage]

EmailHippo ==
    Sync("emailhippo", "path", 1, {"work_email"},
        [email_status |-> 90, company_domain |-> 65])

Truelist ==
    Sync("truelist", "bearer", 1, {"work_email"},
        [email_status |-> 90, work_email |-> 90, company_domain |-> 70])

Verimail ==
    [Sync("verimail", "query", 1, {"work_email"},
         [email_status |-> 90, work_email |-> 90])
     EXCEPT !.refuses = ByMessage]

Mailboxlayer ==
    [Sync("mailboxlayer", "query", 1, {"work_email"},
         [email_status |-> 85, work_email |-> 60, personal_email |-> 60,
          company_domain |-> 55])
     EXCEPT
            !.refuses = {"auth", "bad_request", "quota", "rate_limit", "transient"}]

SendGridValidation ==
    Sync("sendgrid-validation", "bearer", 1, {"work_email"},
        [email_status |-> 90])

Proofy ==
    Sync("proofy", "query", 1, {"work_email"},
        [email_status |-> 90])

CaptainVerify ==
    [Sync("captainverify", "query", 1, {"work_email"},
         [email_status |-> 90])
     EXCEPT !.refuses = ByMessage]

SendPulseVerifier ==
    Async("sendpulse-verifier", "oauth2_cc", 1, {"work_email"},
        [email_status |-> 90, work_email |-> 90], "transient")

-----------------------------------------------------------------------------
(* Phone-validate *)

Twilio ==
    [Sync("twilio-lookup", "basic", 5, {"mobile_phone"},
         [phone_status |-> 95])
     EXCEPT !.gives = [phone_status |-> {60, 95}] @@ @,
            !.sure = {"phone_status"}]

Telnyx ==
    [Sync("telnyx", "bearer", 5, {"mobile_phone"},
         [phone_status |-> 90])
     EXCEPT !.gives = [mobile_phone |-> {95}] @@ @, !.sure = {"phone_status"}]

Vonage ==
    [Sync("vonage", "basic", 5, {"mobile_phone"},
         [phone_status |-> 90])
     EXCEPT !.refuses = {"auth", "quota", "rate_limit"}]

MessageBird ==
    [Sync("messagebird", "header", 5, {"mobile_phone"},
         [phone_status |-> 90])
     EXCEPT !.gives = [mobile_phone |-> {90}] @@ @, !.sure = {"phone_status"}]

IPQualityScore ==
    [Sync("ipqualityscore", "header", 5, {"mobile_phone"},
         [phone_status |-> 90])
     EXCEPT !.gives = [mobile_phone |-> {95}] @@ @, !.sure = {"phone_status"},
            !.refuses = ByMessage]

Plivo ==
    [Sync("plivo", "basic", 5, {"mobile_phone"},
         [phone_status |-> 90])
     EXCEPT !.gives = [mobile_phone |-> {95}] @@ @, !.sure = {"phone_status"}]

Infobip ==
    Sync("infobip", "header", 5, {"mobile_phone"},
        [phone_status |-> 90])

NumVerify ==
    [Sync("numverify", "query", 5, {"mobile_phone"},
         [phone_status |-> 80])
     EXCEPT !.gives = [mobile_phone |-> {90}] @@ @, !.sure = {"phone_status"},
            !.refuses = ByMessage]

AbstractPhone ==
    [Sync("abstract-phone", "query", 5, {"mobile_phone"},
         [phone_status |-> 80])
     EXCEPT !.gives = [mobile_phone |-> {90}] @@ @, !.sure = {"phone_status"}]

Veriphone ==
    [Sync("veriphone", "bearer", 5, {"mobile_phone"},
         [phone_status |-> 80])
     EXCEPT !.gives = [mobile_phone |-> {90}] @@ @, !.sure = {"phone_status"}]

Byteplant ==
    [Sync("byteplant-phone", "query", 5, {"mobile_phone"},
         [phone_status |-> 85])
     EXCEPT !.gives = [mobile_phone |-> {90}] @@ @, !.sure = {"phone_status"},
            !.refuses = {"auth", "rate_limit", "transient"}]

Telesign ==
    [Sync("telesign", "basic", 5, {"mobile_phone"},
         [phone_status |-> 85])
     EXCEPT !.sure = {"phone_status"}]

RealPhoneValidation ==
    [Sync("realphonevalidation", "query", 2, {"mobile_phone"},
         [phone_status |-> 90])
     EXCEPT !.sure = {"phone_status"}, !.refuses = {"auth", "transient"}]

Trestle ==
    [Sync("trestle", "header", 2, {"mobile_phone"},
         [phone_status |-> 90])
     EXCEPT !.refuses = {"transient"}]

NumLookupAPI ==
    Sync("numlookupapi", "header", 1, {"mobile_phone"},
        [phone_status |-> 90, mobile_phone |-> 90])

NeutrinoAPI ==
    Sync("neutrinoapi", "dual_header", 1, {"mobile_phone"},
        [phone_status |-> 90, mobile_phone |-> 90])

MelissaGlobalPhone ==
    [Sync("melissa-global-phone", "query", 1, {"company_hq_country",
         "mobile_phone"},
         [phone_status |-> 90, mobile_phone |-> 65])
     EXCEPT !.refuses = {"auth"}]

LoqatePhone ==
    [Sync("loqate-phone", "query", 1, {"mobile_phone"},
         [phone_status |-> 90, mobile_phone |-> 90])
     EXCEPT !.refuses = {"auth", "bad_request", "quota", "rate_limit"}]

Data8Phone ==
    [Sync("data8-phone", "query", 1, {"mobile_phone"},
         [phone_status |-> 90, mobile_phone |-> 65])
     EXCEPT !.refuses = ByMessage]

-----------------------------------------------------------------------------
Verifiers ==
    {NeverBounce, Kickbox, ZeroBounce, Emailable, Bouncer, MillionVerifier,
     Verifalia, BounceBan, Scrubby, Enrichley, Mailfloss, DeBounce, Clearout,
     MailgunValidate, QuickEmailVerification, MyEmailVerifier,
     MailboxValidator, Bouncify, EmailListVerify, Cloudmersive, AbstractEmail,
     MailerCheck, Reoon, MailsSo, EmailHippo, Truelist, Verimail, Mailboxlayer,
     SendGridValidation, Proofy, CaptainVerify, SendPulseVerifier, Twilio,
     Telnyx, Vonage, MessageBird, IPQualityScore, Plivo, Infobip, NumVerify,
     AbstractPhone, Veriphone, Byteplant, Telesign, RealPhoneValidation,
     Trestle, NumLookupAPI, NeutrinoAPI, MelissaGlobalPhone, LoqatePhone,
     Data8Phone}

-----------------------------------------------------------------------------
\* Firmographic, technographic and intent providers.

(* Firmographics *)

Clearbit ==
    Sync("clearbit", "bearer", 5, {"company_domain"},
        [company_name |-> 85, industry |-> 80, sic |-> 65, naics |-> 65,
         employee_count |-> 80, company_revenue |-> 75, technographics |-> 75,
         company_hq_country |-> 85, company_hq_city |-> 85,
         company_founded_year |-> 80, company_type |-> 80,
         company_linkedin_url |-> 75])

Brandfetch ==
    Sync("brandfetch", "bearer", 3, {"company_domain"},
        [company_name |-> 80, employee_count |-> 65,
         company_founded_year |-> 70, industry |-> 65, company_type |-> 70,
         company_hq_country |-> 70, company_hq_city |-> 70,
         company_linkedin_url |-> 75, twitter_url |-> 75, facebook_url |-> 75,
         github_url |-> 75])

Crunchbase ==
    Sync("crunchbase", "header", 5, {"company_domain"},
        [company_name |-> 80, company_domain |-> 80,
         company_linkedin_url |-> 80, company_founded_year |-> 80,
         industry |-> 80, company_type |-> 80, funding_stage |-> 70,
         company_phone |-> 70, total_funding_usd |-> 75, company_ticker |-> 75,
         crunchbase_url |-> 80])

OpenCorporates ==
    Sync("opencorporates", "query", 5, {"company_hq_country", "company_name"},
        [company_name |-> 85, company_founded_year |-> 85,
         company_hq_country |-> 80, company_type |-> 85,
         company_hq_city |-> 75])

OceanIO ==
    Sync("ocean-io", "header", 5, {"company_domain", "company_name"},
        [company_name |-> 85, company_domain |-> 85, employee_count |-> 65,
         industry |-> 75, company_revenue |-> 60, company_founded_year |-> 80,
         company_hq_country |-> 80, funding_stage |-> 70,
         technographics |-> 70])

TheCompaniesAPI ==
    [Sync("the-companies-api", "header", 5, {"company_domain"},
         [company_name |-> 85, industry |-> 80, employee_count |-> 65,
          company_revenue |-> 60, company_founded_year |-> 80,
          company_type |-> 80, company_hq_city |-> 75,
          company_hq_country |-> 75, company_linkedin_url |-> 80, naics |-> 85,
          sic |-> 85, technographics |-> 70, company_phone |-> 60])
     EXCEPT !.gives = [employee_count |-> {60, 65}] @@ @]

Storeleads ==
    Sync("storeleads", "bearer", 5, {"company_domain"},
        [company_domain |-> 85, company_name |-> 80, company_hq_country |-> 80,
         company_hq_city |-> 80, employee_count |-> 65, company_revenue |-> 60,
         technographics |-> 75, industry |-> 55])

Diffbot ==
    Sync("diffbot", "query", 5, {"company_domain", "company_hq_country",
        "company_name"},
        [company_name |-> 65, company_domain |-> 70, employee_count |-> 60,
         company_revenue |-> 55, company_founded_year |-> 65,
         company_linkedin_url |-> 70, naics |-> 65, sic |-> 65])

Vainu ==
    Sync("vainu", "header", 5, {"company_domain", "company_hq_country",
        "company_name"},
        [company_name |-> 80, company_domain |-> 80, company_hq_country |-> 80,
         company_hq_city |-> 75, employee_count |-> 70, company_revenue |-> 70,
         industry |-> 75, company_type |-> 80, company_founded_year |-> 80,
         company_linkedin_url |-> 75, company_phone |-> 70,
         technographics |-> 65])

GlobalDatabase ==
    Sync("global-database", "header", 5, {"company_domain"},
        [company_name |-> 90, company_domain |-> 85, company_phone |-> 85,
         employee_count |-> 80, company_founded_year |-> 90, industry |-> 75,
         sic |-> 85, company_hq_country |-> 90, company_hq_city |-> 85,
         company_type |-> 90, company_linkedin_url |-> 75])

DataAxle ==
    Sync("data-axle", "header", 5, {"company_domain", "company_hq_city",
        "company_hq_country", "company_name", "company_phone"},
        [company_name |-> 65, company_phone |-> 65, company_hq_city |-> 65,
         company_hq_country |-> 65, company_linkedin_url |-> 55,
         company_type |-> 55, company_founded_year |-> 55])

Owler ==
    Sync("owler", "header", 5, {"company_domain"},
        [company_name |-> 70, company_domain |-> 70, industry |-> 65,
         employee_count |-> 60, company_revenue |-> 60,
         company_founded_year |-> 60, company_type |-> 65,
         company_hq_country |-> 65, company_hq_city |-> 60,
         company_phone |-> 60, company_linkedin_url |-> 65])

Leadspace ==
    Sync("leadspace", "bearer", 5, {"company_domain", "company_name"},
        [company_name |-> 65, company_domain |-> 60, industry |-> 65,
         employee_count |-> 65, company_revenue |-> 60,
         company_hq_country |-> 65, company_hq_city |-> 65,
         company_linkedin_url |-> 70, company_phone |-> 60,
         company_type |-> 45, technographics |-> 60])

NinjaPear ==
    Sync("ninjapear", "bearer", 5, {"company_domain"},
        [company_name |-> 65, company_domain |-> 70, industry |-> 60,
         company_type |-> 65, company_founded_year |-> 60,
         employee_count |-> 60, company_hq_country |-> 65,
         company_hq_city |-> 60])

MixRank ==
    Sync("mixrank", "path", 5, {"company_domain", "company_linkedin_url",
        "company_name"},
        [company_name |-> 65, company_domain |-> 60, employee_count |-> 65,
         industry |-> 65, sic |-> 60, naics |-> 60,
         company_founded_year |-> 65, company_hq_country |-> 65,
         company_hq_city |-> 65, company_type |-> 60,
         company_linkedin_url |-> 70])

DNB ==
    [Async("dnb", "oauth2_cc", 5, {"company_domain", "company_hq_country",
         "company_name"},
         [duns_number |-> 85, company_name |-> 85, company_domain |-> 70,
          company_hq_country |-> 85, company_hq_city |-> 85,
          employee_count |-> 65, company_revenue |-> 65, sic |-> 85,
          industry |-> 85], "not_found")
     EXCEPT !.pends = FALSE]

Explorium ==
    [Async("explorium", "header", 3, {"company_domain", "company_linkedin_url",
         "company_name"},
         [company_name |-> 92, company_domain |-> 80, industry |-> 85,
          naics |-> 90, sic |-> 90, employee_count |-> 85,
          company_revenue |-> 85, company_hq_country |-> 90,
          company_hq_city |-> 90, company_linkedin_url |-> 88], "not_found")
     EXCEPT !.pends = FALSE]

Endole ==
    [Async("endole", "basic", 5, {"company_name"},
         [company_name |-> 95, sic |-> 90, company_founded_year |-> 88,
          company_hq_country |-> 90, company_hq_city |-> 85,
          company_type |-> 85], "not_found")
     EXCEPT !.pends = FALSE]

Demandbase ==
    [Async("demandbase", "oauth2_cc", 4, {"company_domain"},
         [company_name |-> 90, company_domain |-> 85, industry |-> 80,
          employee_count |-> 80, company_revenue |-> 75,
          company_hq_country |-> 85, company_hq_city |-> 85, naics |-> 85,
          sic |-> 85], "not_found")
     EXCEPT !.pends = FALSE]

Cleanlist ==
    Sync("cleanlist", "bearer", 4, {"company_domain", "company_name"},
        [company_name |-> 80, company_domain |-> 85, industry |-> 75,
         company_revenue |-> 65, employee_count |-> 70,
         company_linkedin_url |-> 75])

InfobelPRO ==
    Sync("infobelpro", "oauth2_cc", 5, {"company_domain", "company_name"},
        [company_name |-> 85, company_domain |-> 80, company_phone |-> 75,
         employee_count |-> 70, company_revenue |-> 65, industry |-> 65,
         company_founded_year |-> 75, company_hq_country |-> 85,
         company_hq_city |-> 80, company_type |-> 80])

AbstractCompany ==
    Sync("abstract-company", "query", 3, {"company_domain"},
        [company_name |-> 80, company_domain |-> 85, employee_count |-> 70,
         industry |-> 70, company_founded_year |-> 75,
         company_hq_country |-> 75, company_type |-> 65,
         company_linkedin_url |-> 70])

Extruct ==
    Sync("extruct", "bearer", 3, {"company_domain"},
        [company_name |-> 80, company_domain |-> 85, employee_count |-> 65])

CompanyEnrich ==
    Sync("companyenrich", "bearer", 1, {"company_domain"},
        [company_name |-> 85, company_domain |-> 85, company_type |-> 85,
         industry |-> 85, employee_count |-> 65, company_revenue |-> 65,
         funding_stage |-> 85, company_founded_year |-> 85,
         company_hq_country |-> 85, company_hq_city |-> 85,
         company_linkedin_url |-> 85, company_phone |-> 65, naics |-> 85,
         technographics |-> 65])

CompaniesHouse ==
    [Async("companies-house", "basic", 1, {"company_name"},
         [company_name |-> 85, company_type |-> 85,
          company_founded_year |-> 85, sic |-> 85, company_hq_country |-> 85,
          company_hq_city |-> 85], "not_found")
     EXCEPT !.pends = FALSE]

BigPicture ==
    Sync("bigpicture", "header", 1, {"company_domain"},
        [company_name |-> 90, company_domain |-> 90, company_type |-> 80,
         company_phone |-> 65, industry |-> 65, naics |-> 60,
         company_founded_year |-> 70, employee_count |-> 60,
         company_revenue |-> 60, company_hq_country |-> 85,
         company_hq_city |-> 80, company_linkedin_url |-> 80])

Brreg ==
    [Async("brreg", "none", 0, {"company_name"},
         [company_name |-> 95, employee_count |-> 90, industry |-> 90,
          company_domain |-> 80, company_founded_year |-> 90,
          company_hq_country |-> 95, company_hq_city |-> 90,
          company_type |-> 85, company_phone |-> 80], "not_found")
     EXCEPT !.pends = FALSE]

GLEIF ==
    Sync("gleif", "none", 0, {"company_name"},
        [company_name |-> 93, company_hq_country |-> 92,
         company_hq_city |-> 90, company_type |-> 70,
         company_founded_year |-> 60])

RechercheEntreprises ==
    [Sync("recherche-entreprises", "none", 0, {"company_name"},
         [company_name |-> 93, industry |-> 90, company_type |-> 90,
          company_founded_year |-> 90, company_hq_city |-> 93,
          company_hq_country |-> 95, company_revenue |-> 65])
     EXCEPT !.refuses = {"bad_request"}]

AresCZ ==
    Sync("ares-cz", "none", 0, {"company_name"},
        [company_name |-> 90, company_hq_country |-> 90,
         company_hq_city |-> 90, company_type |-> 75,
         company_founded_year |-> 85, industry |-> 80])

CroIE ==
    Sync("cro-ie", "basic", 0, {"company_name"},
        [company_name |-> 90, company_type |-> 85,
         company_founded_year |-> 55])

CharityCommissionUK ==
    Sync("charity-commission-uk", "header", 0, {"company_name"},
        [company_name |-> 80, company_type |-> 90,
         company_founded_year |-> 40])

NorthData ==
    Sync("north-data", "header", 2, {"company_hq_city", "company_name"},
        [company_name |-> 93, company_type |-> 90, company_hq_city |-> 92,
         company_hq_country |-> 92, industry |-> 80, naics |-> 60,
         company_revenue |-> 80, employee_count |-> 75, company_domain |-> 60,
         company_phone |-> 55])

NZCompanies ==
    [Async("nz-companies", "header", 0, {"company_name"},
         [company_name |-> 92, company_type |-> 90,
          company_founded_year |-> 85, company_hq_country |-> 90,
          company_hq_city |-> 65, industry |-> 85, company_domain |-> 75,
          company_phone |-> 70], "not_found")
     EXCEPT !.pends = FALSE]

OpenSanctions ==
    [Sync("opensanctions", "header", 1, {"company_hq_country", "company_name"},
         [company_name |-> 90, company_hq_country |-> 80])
     EXCEPT
            !.gives = [company_name |-> 0 .. 100, company_hq_country |-> 0 .. 100] @@ @]

-----------------------------------------------------------------------------
(* Intent *)

G2 ==
    Sync("g2", "bearer", 5, {"company_domain"},
        [buying_signal |-> 85, intent_topics |-> 75, company_name |-> 75,
         company_domain |-> 78, industry |-> 70, company_hq_country |-> 70,
         employee_count |-> 70])

SixSense ==
    Sync("6sense", "header", 5, {"company_domain", "company_hq_country",
        "company_name", "first_name", "job_title", "last_name", "work_email"},
        [intent_score |-> 85, buying_signal |-> 85, intent_topics |-> 60,
         company_name |-> 85, company_domain |-> 90, industry |-> 80,
         employee_count |-> 80, company_revenue |-> 75,
         company_hq_country |-> 80, company_hq_city |-> 75,
         company_phone |-> 65, naics |-> 80, sic |-> 80])

-----------------------------------------------------------------------------
(* Technographics *)

PredictLeads ==
    Sync("predictleads", "dual_header", 4, {"company_domain"},
        [company_name |-> 85, company_domain |-> 90,
         company_hq_country |-> 75])

BuiltWith ==
    [Sync("builtwith", "query", 5, {"company_domain"},
         [technographics |-> 88, company_name |-> 70, industry |-> 65,
          company_hq_country |-> 70, employee_count |-> 55,
          company_revenue |-> 55])
     EXCEPT !.refuses = {"auth", "bad_request", "quota", "transient"}]

TheirStack ==
    Sync("theirstack", "bearer", 3, {"company_domain"},
        [technographics |-> 75])

Wappalyzer ==
    Sync("wappalyzer", "header", 5, {"company_domain"},
        [technographics |-> 85])

HGInsights ==
    Sync("hg-insights", "bearer", 5, {"company_domain"},
        [technographics |-> 70, company_name |-> 90, company_domain |-> 95,
         company_hq_country |-> 80, employee_count |-> 65,
         company_revenue |-> 65])

-----------------------------------------------------------------------------
Companies ==
    {Clearbit, Brandfetch, Crunchbase, OpenCorporates, OceanIO,
     TheCompaniesAPI, Storeleads, Diffbot, Vainu, GlobalDatabase, DataAxle,
     Owler, Leadspace, NinjaPear, MixRank, DNB, Explorium, Endole, Demandbase,
     Cleanlist, InfobelPRO, AbstractCompany, Extruct, CompanyEnrich,
     CompaniesHouse, BigPicture, Brreg, GLEIF, RechercheEntreprises, AresCZ,
     CroIE, CharityCommissionUK, NorthData, NZCompanies, OpenSanctions, G2,
     SixSense, PredictLeads, BuiltWith, TheirStack, Wappalyzer, HGInsights}
=============================================================================
