------------------------------ MODULE Connectors ------------------------------
(***************************************************************************)
(* What tells the connectors of internal/provider apart: how each walks    *)
(* the vendor's list of accounts, what it reports of them, and how it      *)
(* removes a seat.  Connector gives these traits their meaning.            *)
(*                                                                         *)
(* client: whether it sends through the `shared` client, or through the    *)
(*   vendor's own `library`, which neither retries nor times out.          *)
(* walk.by: how the next page is asked for - a cursor of the vendor's, a   *)
(*   page number, an offset advanced by what was `returned` or by what was *)
(*   `requested`, or everything at `once`.                                 *)
(* walk.until: what ends the walk.                                         *)
(* safe: whether the list is read with GET.                                *)
(* sees: the accounts listed; tells: the status reported of each.          *)
(* names: what stands for an account without a visible address; `lookup`   *)
(*   asks for every address apart, and falls back when that fails.         *)
(* finds, does: how RemoveUser finds the seat, and what it asks for.       *)
(***************************************************************************)
Accounts == {"active", "disabled", "pending"}

Once == [by |-> "once", until |-> {}]
Cursor(until) == [by |-> "cursor", until |-> until]
Numbered(until) == [by |-> "page", until |-> until]
Returned(until) == [by |-> "returned", until |-> until]
Requested(until) == [by |-> "requested", until |-> until]

\* httpclient.ListSCIM.
Scim == Returned({"scim"})

\* The status reported of an active, a disabled and a pending account.
Telling(active, disabled, pending) ==
  [a \in Accounts |-> CASE a = "active" -> active
                        [] a = "disabled" -> disabled
                        [] a = "pending" -> pending]

\* Mutant: the flag is not read.
Flagged_Ignored == Telling("active", "active", "active")
Flagged == Telling("active", "suspended", "active")
Precise == Telling("active", "suspended", "invited")
Inviting == Telling("active", "active", "invited")
Blind == Telling("active", "active", "active")
Verbatim == Telling("active", "other", "other")

\* Most follow a cursor, read a flag, crawl the list to find a seat's id, and
\* delete the account.
Common == [client |-> "shared", walk |-> Cursor({"noMore"}), safe |-> TRUE,
           sees |-> Accounts, tells |-> Flagged, names |-> "mail",
           finds |-> "crawl", does |-> "deletes", adds |-> FALSE]
CommonScim == [Common EXCEPT !.walk = Scim, !.names = "orLogin"]
-----------------------------------------------------------------------------
\* Connectors over SCIM.

\* RemoveUser first asks for one filtered result, and crawls only when that
\* fails or does not match.
Slack == [CommonScim EXCEPT !.names = "orNothing", !.finds = "filter"]
Atlassian == CommonScim
AwsIam == CommonScim
Notion == CommonScim
Canva == CommonScim

\* The only one that can add a seat.
Stripe == [CommonScim EXCEPT !.names = "orNothing", !.adds = TRUE]

\* A PATCH sets active to false.
Databricks == [CommonScim EXCEPT !.does = "deactivates"]
Figma == [CommonScim EXCEPT !.does = "deactivates"]
OnePassword == [CommonScim EXCEPT !.does = "deactivates"]
Snowflake == [CommonScim EXCEPT !.does = "deactivates"]

Rippling == [CommonScim EXCEPT !.finds = "never"]
-----------------------------------------------------------------------------
\* Connectors that follow a cursor, a token or a link to the next page.

Asana == [Common EXCEPT !.tells = Blind]
Airtable == [Common EXCEPT !.tells = Precise]
Anthropic == [Common EXCEPT !.tells = Blind]
ClaudeCode == [Common EXCEPT !.tells = Blind]
AzureAd == [Common EXCEPT !.names = "orLogin"]
MsTeams == [Common EXCEPT !.names = "orLogin"]
Brex == [Common EXCEPT !.tells = Precise, !.does = "deactivates"]
GcpIam == Common
HubSpot == Common
Loom == [Common EXCEPT !.tells = Verbatim]
Sentry == [Common EXCEPT !.tells = Inviting]
Vercel == [Common EXCEPT !.tells = Inviting]
Zendesk == Common
Salesforce == [Common EXCEPT !.does = "deactivates"]

\* Only active accounts are asked for.
Zoom == [Common EXCEPT !.sees = {"active"}, !.tells = Blind]
Miro == [Common EXCEPT !.sees = {"active"}]

Okta == [Common EXCEPT !.tells = Precise, !.names = "orLogin",
                       !.does = "deactivates"]

\* The list is read with POST.
Linear == [Common EXCEPT !.safe = FALSE, !.does = "deactivates"]
Dropbox == [Common EXCEPT !.safe = FALSE, !.tells = Verbatim,
                          !.finds = "direct"]

\* The directory itself, through Google's admin library; the vendor resolves
\* the address.
Google == [Common EXCEPT !.client = "library", !.finds = "direct",
                         !.does = "deactivates"]

\* The id of the last member is the cursor.
Discord == [Common EXCEPT !.walk = Cursor({"short"}), !.tells = Blind,
                          !.names = "orLogin"]
-----------------------------------------------------------------------------
\* Connectors that number pages or count an offset.

Adobe == [Common EXCEPT !.walk = Numbered({"noMore"}), !.tells = Verbatim]
Auth0 == [Common EXCEPT !.walk = Numbered({"total", "empty"})]
Datadog == [Common EXCEPT !.walk = Numbered({"short"}), !.tells = Precise]
Freshdesk == [Common EXCEPT !.walk = Numbered({"empty", "short"})]
Netlify == [Common EXCEPT !.walk = Numbered({"short"}), !.tells = Blind]
NewRelic == [Common EXCEPT !.walk = Numbered({"empty"}), !.tells = Blind]
GitLab == [Common EXCEPT !.walk = Numbered({"empty", "pages"}),
                         !.sees = {"active"}, !.does = "deactivates"]
GitHubCopilot == [Common EXCEPT !.walk = Numbered({"empty", "short", "cap"}),
                                !.names = "orLogin", !.finds = "never"]
GitHub == [Common EXCEPT !.walk = Numbered({"empty", "noMore"}),
                         !.tells = Blind, !.names = "lookup"]

Box == [Common EXCEPT !.walk = Requested({"reach"}), !.tells = Verbatim]
DocuSign == [Common EXCEPT !.walk = Requested({"reach"}), !.tells = Verbatim]
PagerDuty == [Common EXCEPT !.walk = Requested({"noMore"}), !.tells = Blind]
Deel == [Common EXCEPT !.walk = Returned({"total"}), !.names = "orLogin",
                       !.tells = Precise, !.finds = "never"]
-----------------------------------------------------------------------------
\* Connectors that ask once for everybody.

BambooHr == [Common EXCEPT !.walk = Once, !.finds = "never"]
ClickUp == [Common EXCEPT !.walk = Once, !.tells = Blind]
Grafana == [Common EXCEPT !.walk = Once, !.tells = Blind]
Shortcut == [Common EXCEPT !.walk = Once]
Snyk == [Common EXCEPT !.walk = Once, !.tells = Blind]
Trello == [Common EXCEPT !.walk = Once, !.tells = Blind, !.names = "orLogin"]
Monday == [Common EXCEPT !.walk = Once, !.safe = FALSE,
                         !.does = "deactivates"]
LastPass == [Common EXCEPT !.walk = Once, !.safe = FALSE, !.tells = Precise,
                           !.finds = "direct"]

\* RemoveUser marks the teammate as away; the seat stays.
Intercom == [Common EXCEPT !.walk = Once, !.tells = Blind, !.does = "away"]
-----------------------------------------------------------------------------
\* buildProvider: the connectors a configuration may name.
Catalog ==
  {Slack, Atlassian, AwsIam, Notion, Canva, Stripe, Databricks, Figma,
   OnePassword, Snowflake, Rippling, Asana, Airtable, Anthropic, ClaudeCode,
   AzureAd, MsTeams, Brex, GcpIam, HubSpot, Loom, Sentry, Vercel, Zendesk,
   Salesforce, Zoom, Miro, Okta, Linear, Dropbox, Google, Discord, Adobe,
   Auth0, Datadog, Freshdesk, Netlify, NewRelic, GitLab, GitHubCopilot,
   GitHub, Box, DocuSign, PagerDuty, Deel, BambooHr, ClickUp, Grafana,
   Shortcut, Snyk, Trello, Monday, LastPass, Intercom}
=============================================================================
