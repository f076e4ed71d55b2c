------------------------------- MODULE Forms -------------------------------
(***************************************************************************)
(* The settings of a chatbot and of its organization: the forms that       *)
(* browsers fill in and save (the tabs of the chatbot page, the branding   *)
(* tab), the PATCH handlers behind them, the API clients that call the     *)
(* same handlers, and the pages that only show what is stored.             *)
(*                                                                         *)
(* A column holds the number of the act that gave it its value; 0 is the   *)
(* value it has at the start, which is also the forms' default.  A form    *)
(* that keeps several columns of one kind is modelled with one or two.     *)
(***************************************************************************)
EXTENDS Integers

CONSTANTS
  MaxRequests,  \* a bound on the PATCH requests
  MaxActs,      \* a bound on the values that are typed in or sent
  ClientForms,  \* what API clients update
  VisitedTabs,  \* the tabs that are opened
  Faults,       \* subset of {"cut"}: a request dies, or its answer is lost
  None          \* no request

Requests == 1 .. MaxRequests    \* numbered in the order they start
Values == 0 .. MaxActs

ASSUME BoundsAssumption == MaxRequests \in Nat /\ MaxActs \in Nat
ASSUME NoneAssumption == None \notin Requests /\ None \notin {"page", "answered", "orphan", "client"}
ASSUME ClientAssumption == ClientForms \subseteq {"general", "ai", "rateLimit", "appearance", "embed",
                                                    "branding", "tenant"}
ASSUME TabsAssumption == VisitedTabs \subseteq {"general", "ai", "rateLimit", "embed", "branding"}
ASSUME FaultsAssumption == Faults \subseteq {"cut"}

ChatbotForms == {"general", "ai", "rateLimit"}
AllForms == ChatbotForms \cup {"appearance", "embed", "branding"}

(* The columns each form shows and sends.                                  *)
Columns == [general |-> {"name", "isPublic"}, ai |-> {"aiModel"}, rateLimit |-> {"rateLimitMessages"},
            appearance |-> {"theme", "headerColor"}, embed |-> {"embedAllowedDomains"},
            branding |-> {"primaryColor", "fontFamily"}]
AllColumns == UNION {Columns[f] : f \in AllForms}
ChatbotColumns == UNION {Columns[f] : f \in ChatbotForms}

(* The tabs mount one form each, the embed tab two; each reads one query.  *)
Tabs == [general |-> {"general"}, ai |-> {"ai"}, rateLimit |-> {"rateLimit"},
         embed |-> {"appearance", "embed"}, branding |-> {"branding"}]
QueryOf(tab) == IF tab \in ChatbotForms THEN "chatbot" ELSE tab
TabOf(f) == IF f = "appearance" THEN "embed" ELSE f
Queries == {"chatbot", "embed", "branding"}
Query(f) == QueryOf(TabOf(f))

(* The keys a form's body has, and those its DTO requires and allows.      *)
Sent == [general |-> {"name", "isPublic", "initialMessage"},
         ai |-> {"aiModel", "temperature", "systemPrompt"},
         rateLimit |-> {"rateLimitEnabled", "rateLimitMessages", "rateLimitWindowMinutes",
                        "rateLimitErrorMessage"},
         appearance |-> {"appearance"},
         embed |-> {"embedAllowedDomains", "passwordProtected"},
         branding |-> {"logoUrl", "primaryColor", "secondaryColor", "fontFamily", "customCss"}]

UpdateChatbotDto == [required |-> {}, optional |-> Sent["general"] \cup Sent["ai"] \cup Sent["rateLimit"]]
UpdateAppearanceDto == [required |-> {"chatbotId", "appearance"}, optional |-> {}]
UpdateEmbedSettingsDto == [required |-> {"chatbotId"},
                           optional |-> {"embedAllowedDomains", "passwordProtected", "password"}]
UpdateBrandingDto == [required |-> {},
                      optional |-> {"primaryColor", "secondaryColor", "fontFamily", "customCss"}]
Dto(f) == CASE f \in ChatbotForms -> UpdateChatbotDto
            [] f = "appearance" -> UpdateAppearanceDto
            [] f = "embed" -> UpdateEmbedSettingsDto
            [] f = "branding" -> UpdateBrandingDto

(* The validation pipe refuses a body that lacks a required key, and one   *)
(* that has a key the DTO does not declare.                                *)
Accepts(dto, keys) == dto.required \subseteq keys /\ keys \subseteq dto.required \cup dto.optional

(* The key under which a page looks for its data, and the controller's.    *)
KeyRead == [chatbot |-> "chatbot", embed |-> "embedSettings", branding |-> "branding",
            deployment |-> "scriptTag", widget |-> "name"]
KeysGiven == [chatbot |-> {"chatbot"}, embed |-> {"embed"}, branding |-> {"branding"},
              deployment |-> {"embedCode"}, widget |-> {"chatbot", "organization"}]
Understood(q) == KeyRead[q] \in KeysGiven[q]

VARIABLES
  row,       \* the columns of the chatbot and of the organization
  wanted,    \* the value last saved for each column by an edit of it (history)
  req,       \* the PATCH requests
  acts,      \* how many values have been typed in or sent
  page,      \* the tab on screen, its forms and the mutations it awaits
  cache,     \* the columns each query has last fetched
  fetch      \* each query: at rest, stale, sent or answered

dbVars == <<row, wanted>>
pageVars == <<acts, page, cache, fetch>>
vars == <<dbVars, req, pageVars>>

Busy == {"find", "write"}
PCs == Busy \cup {"idle", "ok", "refused", "cut"}
Mutations == {"chatbot", "appearance", "embed", "branding"}
Mutation(f) == IF f \in ChatbotForms THEN "chatbot" ELSE f
BotPage == ChatbotForms \cup {"embed"}

Unloaded == [c \in {} |-> 0]
Zero(columns) == [c \in columns |-> 0]
QueryColumns(q) == UNION {Columns[f] : f \in {g \in AllForms : Query(g) = q}}
AtRest == [at |-> "idle", rows |-> Unloaded, missed |-> FALSE]
NoRequest == [pc |-> "idle", form |-> "general", body |-> Unloaded, edited |-> {}, saw |-> Unloaded,
              late |-> FALSE, met |-> FALSE, by |-> None]
NoPage == [tab |-> "away", shown |-> Unloaded, edited |-> {}, late |-> FALSE,
           awaits |-> [m \in Mutations |-> None]]

Init ==
  /\ row = Zero(AllColumns) /\ wanted = Zero(AllColumns)
  /\ req = [r \in Requests |-> NoRequest]
  /\ acts = 0
  /\ page = NoPage
  /\ cache = [q \in Queries |-> Unloaded]
  /\ fetch = [q \in Queries |-> [AtRest EXCEPT !.at = "stale"]]

At(r, pc) == req[r].pc = pc
Finish(r, pc) == req' = [req EXCEPT ![r].pc = pc, ![r].body = Unloaded, ![r].saw = Unloaded,
                                   ![r].edited = {}]
Overlay(new, old) == [c \in DOMAIN old |-> IF c \in DOMAIN new THEN new[c] ELSE old[c]]
Restricted(s, columns) == [c \in DOMAIN s \cap columns |-> s[c]]

-----------------------------------------------------------------------------
(* The PATCH handlers.                                                     *)

(* The JSON columns that an update merges what it sends into.              *)
Documents == {"branding", "appearance"}
Document(f) == IF f = "tenant" THEN "branding" ELSE f

(* A request that comes while another one is writing the same JSON column  *)
(* meets it.                                                               *)
Start(r, f, body, first, edited, late, by) ==
  LET writes == Document(f) \in Documents /\ first # "refused"
      met == {q \in Requests : req[q].pc \in Busy /\ Document(req[q].form) = Document(f)} IN
  /\ At(r, "idle") /\ \A q \in 1 .. r - 1 : ~At(q, "idle")
  /\ req' = [q \in Requests |->
        IF q = r THEN [NoRequest EXCEPT !.pc = first, !.form = f, !.by = by, !.late = late,
                         !.body = IF first = "refused" THEN Unloaded ELSE body,
                         !.edited = IF first = "refused" THEN {} ELSE edited,
                         !.met = writes /\ met # {}]
        ELSE IF writes /\ q \in met THEN [req[q] EXCEPT !.met = TRUE]
        ELSE req[q]]

(* API clients send what the DTOs ask for.  PATCH /tenant has no DTO, does *)
(* not read first, and replaces the branding: a field it does not send is  *)
(* dropped.                                                                *)
CallApi(r) ==
  /\ acts < MaxActs /\ acts' = acts + 1
  /\ \/ \E f \in ClientForms \cap AllForms : \E c \in Columns[f] :
          Start(r, f, [x \in {c} |-> acts + 1], "find", {c}, FALSE, "client")
     \/ \E sent \in SUBSET Columns["branding"] :
          /\ "tenant" \in ClientForms
          /\ Start(r, "tenant", [x \in Columns["branding"] |-> IF x \in sent THEN acts + 1 ELSE 0],
                   "write", Columns["branding"], FALSE, "client")
  /\ UNCHANGED <<dbVars, page, cache, fetch>>

(* The handlers read the row first; updateBranding and updateAppearance    *)
(* keep the JSON column they read.                                         *)
FindRow(r) ==
  /\ At(r, "find")
  /\ req' = [req EXCEPT ![r].pc = "write",
                        ![r].saw = IF req[r].form \in Documents
                                   THEN Restricted(row, Columns[req[r].form]) ELSE @]
  /\ UNCHANGED <<dbVars, pageVars>>

(* Mutant: the JSON column is replaced by what the request sends. *)
WriteUnmerged(r) ==
  /\ At(r, "write")
  /\ LET R == req[r] IN
     /\ row' = Overlay(R.body, [c \in AllColumns |-> IF c \in DOMAIN R.saw THEN 0 ELSE row[c]])
     /\ wanted' = Overlay(Restricted(R.body, R.edited), wanted)
  /\ Finish(r, "ok")
  /\ UNCHANGED <<pageVars>>

(* A column that a request sends is overwritten; a JSON column is written  *)
(* back as it was read, with the fields that were sent.                    *)
Write(r) ==
  /\ At(r, "write")
  /\ LET R == req[r] IN
     /\ row' = Overlay(R.body, Overlay(R.saw, row))
     /\ wanted' = Overlay(Restricted(R.body, R.edited), wanted)
  /\ Finish(r, "ok")
  /\ UNCHANGED <<pageVars>>

(* The process ends, a call throws, or the answer is lost on its way.      *)
CutRequest(r) ==
  /\ "cut" \in Faults /\ (req[r].pc \in Busy \/ (At(r, "ok") /\ req[r].by = "page"))
  /\ \A q \in Requests : ~At(q, "cut")      \* one fault per behaviour
  /\ Finish(r, "cut")
  /\ UNCHANGED <<dbVars, pageVars>>

-----------------------------------------------------------------------------
(* The chatbot page and the branding tab of the settings page.             *)

Mounted == page.shown # Unloaded
ActiveQueries(tab) == (IF tab \in BotPage THEN {"chatbot"} ELSE {})
                      \cup (IF tab \in DOMAIN Tabs THEN {QueryOf(tab)} ELSE {})
TabColumns(tab) == UNION {Columns[f] : f \in Tabs[tab]}

(* A save of this data is under way.                                       *)
Saving(q) == \E r \in Requests : req[r].by = "page" /\ Query(req[r].form) = q

(* Mutant: what was edited in the last tab counts for the next one. *)
MountKeepsEdits(tab, values, unsettled) ==
  [page EXCEPT !.tab = tab, !.shown = Restricted(values, TabColumns(tab))]

(* A form takes the values that are cached when it mounts, or its defaults *)
(* when it does not find them in the answer; later answers do not reach    *)
(* it.  It is late when the cached values may be overtaken.                *)
Mount(tab, values, unsettled) ==
  [page EXCEPT !.tab = tab,
               !.shown = IF Understood(QueryOf(tab)) THEN Restricted(values, TabColumns(tab))
                         ELSE Zero(TabColumns(tab)),
               !.edited = {}, !.late = unsettled \/ Saving(QueryOf(tab)),
               !.awaits = [m \in Mutations |->
                  IF m = "chatbot" /\ {page.tab, tab} \subseteq BotPage THEN @[m] ELSE None]]

OpenTab(tab) ==
  /\ page.tab \notin {tab, "crashed"} /\ tab \in VisitedTabs
  /\ tab = "branding" => page.tab = "away"     \* a bound: the settings page is visited first
  /\ LET q == QueryOf(tab) IN
     page' = [Mount(tab, cache[q], fetch[q].at # "idle" \/ fetch[q].missed) EXCEPT
                 !.shown = IF cache[q] = Unloaded THEN Unloaded ELSE @]
  /\ fetch' = [q \in Queries |->
        IF q \in ActiveQueries(tab) \ ActiveQueries(page.tab) /\ fetch[q].at = "stale"
        THEN [AtRest EXCEPT !.at = "sent"] ELSE fetch[q]]
  /\ UNCHANGED <<dbVars, req, acts, cache>>

Edit(c) ==
  /\ c \notin page.edited
  /\ acts < MaxActs /\ acts' = acts + 1
  /\ page' = [page EXCEPT !.shown[c] = acts + 1, !.edited = @ \cup {c}]
  /\ UNCHANGED <<dbVars, req, cache, fetch>>

(* A form sends all its columns, edited or not.                            *)
Save(r, f) ==
  /\ page.awaits[Mutation(f)] = None
  /\ Start(r, f, Restricted(page.shown, Columns[f]), IF Accepts(Dto(f), Sent[f]) THEN "find" ELSE "refused",
           page.edited \cap Columns[f], page.late, "page")
  /\ page' = [page EXCEPT !.awaits[Mutation(f)] = r]
  /\ UNCHANGED <<dbVars, acts, cache, fetch>>

Use(r, f) == /\ Mounted /\ f \in Tabs[page.tab]
             /\ Save(r, f) \/ \E c \in Columns[f] : Edit(c)
GeneralTab(r) == Use(r, "general")
AiTab(r) == Use(r, "ai")
RateLimitTab(r) == Use(r, "rateLimit")
WidgetAppearance(r) == Use(r, "appearance")
EmbedTab(r) == Use(r, "embed")
BrandingTab(r) == Use(r, "branding")

(* Mutant: a save invalidates the list of chatbots, not the chatbot. *)
InvalidateList(q) == UNCHANGED fetch

(* invalidateQueries, as in Domains.                                       *)
Invalidate(q) ==
  fetch' = [fetch EXCEPT ![q] =
              CASE q \in ActiveQueries(page.tab) -> [AtRest EXCEPT !.at = "sent"]
                [] q \notin ActiveQueries(page.tab) /\ @.at \in {"sent", "answered"} -> [@ EXCEPT !.missed = TRUE]
                [] OTHER -> [@ EXCEPT !.at = "stale"]]

(* onSuccess fetches the data again; onError shows a toast.                *)
Answer(r) ==
  /\ req[r].by = "page" /\ req[r].pc \in {"ok", "refused", "cut"}
  /\ req' = [req EXCEPT ![r].by = "answered", ![r].form = NoRequest.form]
  /\ page' = [page EXCEPT !.awaits = [m \in Mutations |-> IF @[m] = r THEN None ELSE @[m]]]
  /\ IF At(r, "ok") THEN Invalidate(Query(req[r].form)) ELSE UNCHANGED fetch
  /\ UNCHANGED <<dbVars, acts, cache>>

(* A fetch reads the row, and its answer travels to the page, whose first  *)
(* answer mounts the form.                                                 *)
ReadQuery(q) ==
  /\ fetch[q].at = "sent"
  /\ fetch' = [fetch EXCEPT ![q].at = "answered", ![q].rows = Restricted(row, QueryColumns(q))]
  /\ UNCHANGED <<dbVars, req, acts, page, cache>>

ShowQuery(q) ==
  /\ fetch[q].at = "answered"
  /\ cache' = [cache EXCEPT ![q] = fetch[q].rows]
  /\ fetch' = [fetch EXCEPT ![q].at = "idle", ![q].rows = Unloaded]
  /\ page' = IF page.tab \in DOMAIN Tabs /\ QueryOf(page.tab) = q /\ ~Mounted
             THEN Mount(page.tab, fetch[q].rows, fetch[q].missed) ELSE page
  /\ UNCHANGED <<dbVars, req, acts>>

(* The deployment tab reads a script tag that the answer does not have,    *)
(* and renders the object it finds instead, which React refuses.           *)
OpenDeployment ==
  /\ page.tab \in BotPage
  /\ page' = [NoPage EXCEPT !.tab = IF Understood("deployment") THEN "deployment" ELSE "crashed"]
  /\ UNCHANGED <<dbVars, req, acts, cache, fetch>>

(* A page that crashed is reloaded, with nothing cached.                   *)
Reload ==
  /\ page.tab = "crashed"
  /\ page' = NoPage
  /\ cache' = [q \in Queries |-> Unloaded]
  /\ fetch' = [q \in Queries |-> [AtRest EXCEPT !.at = "stale"]]
  /\ req' = [r \in Requests |-> IF req[r].by = "page" THEN [req[r] EXCEPT !.by = "orphan"] ELSE req[r]]
  /\ UNCHANGED <<dbVars, acts>>

(* A visitor's browser opens the embed page.  It takes the first letter of *)
(* a name that the widget's configuration does not have at that place.     *)
OpenWidget ==
  /\ page.tab = "away"
  /\ page' = [NoPage EXCEPT !.tab = IF Understood("widget") THEN "widget" ELSE "crashed"]
  /\ UNCHANGED <<dbVars, req, acts, cache, fetch>>

-----------------------------------------------------------------------------
Next ==
  \/ \E r \in Requests : \/ CallApi(r) \/ FindRow(r) \/ Write(r) \/ CutRequest(r) \/ Answer(r)
                         \/ GeneralTab(r) \/ AiTab(r) \/ RateLimitTab(r)
                         \/ WidgetAppearance(r) \/ EmbedTab(r) \/ BrandingTab(r)
  \/ \E tab \in DOMAIN Tabs : OpenTab(tab)
  \/ \E q \in Queries : ReadQuery(q) \/ ShowQuery(q)
  \/ OpenDeployment \/ Reload \/ OpenWidget

Spec == Init /\ [][Next]_vars

-----------------------------------------------------------------------------
(* Type invariant of the tables, the requests and the pages.               *)
TypeOK ==
  /\ row \in [AllColumns -> Values] /\ wanted \in [AllColumns -> Values]
  /\ \A r \in Requests :
       /\ req[r].pc \in PCs /\ req[r].form \in AllForms \cup {"tenant"}
       /\ req[r].by \in {None, "page", "answered", "orphan", "client"}
       /\ req[r].edited \subseteq DOMAIN req[r].body \/ req[r].pc = "idle"
       /\ req[r].saw = Unloaded \/ DOMAIN req[r].saw = Columns[req[r].form]
  /\ acts \in Values
  /\ page.tab \in DOMAIN Tabs \cup {"away", "deployment", "widget", "crashed"}
  /\ page.edited \subseteq DOMAIN page.shown
  /\ \A q \in Queries : cache[q] = Unloaded \/ cache[q] \in [QueryColumns(q) -> Values]

Undisturbed == \A r \in Requests : /\ ~At(r, "cut") /\ ~req[r].late /\ req[r].by # "orphan"
                                   /\ ~(req[r].by = "client" /\ req[r].form \in ChatbotForms)

(* The tabs of the chatbot page send every column they show.  As long as   *)
(* nobody else saves the chatbot and no save is cut, this never takes back *)
(* an edit that was saved before, in this tab or another: what is stored   *)
(* is what was last edited and saved.  There are two exceptions: a form    *)
(* that was opened while a save or a fetch of its data was under way, and  *)
(* a save whose page crashed and was reloaded before its answer came,      *)
(* which the new page does not know of.                                    *)
OwnEditsStand == Undisturbed => \A c \in ChatbotColumns : row[c] = wanted[c]

(* Updates of a JSON column that do not overlap keep each other's fields:  *)
(* each field has the value it was last given, by an update that merges    *)
(* (updateBranding, updateAppearance) or by one that replaces the branding *)
(* and empties what it leaves out (updateOrganization).                    *)
FieldsMerged ==
  \A d \in Documents :
    (\A r \in Requests : Document(req[r].form) = d => ~req[r].met) => \A c \in Columns[d] : row[c] = wanted[c]

(* What a form that is not edited shows is what is stored, when no save or *)
(* fetch of it is under way, nothing was cut, no API client wrote to it    *)
(* and no page crashed over a save of it (the chatbot's tabs).             *)
UnderWay(q) == fetch[q].at # "idle" \/ fetch[q].missed \/ Saving(q)
FormShowsRow ==
  LET q == QueryOf(page.tab) IN
  /\ Mounted /\ page.tab \in ChatbotForms /\ ~page.late /\ page.edited = {}
  /\ ~UnderWay(q) /\ Undisturbed
  => \A c \in DOMAIN page.shown : page.shown[c] = row[c]
=============================================================================
