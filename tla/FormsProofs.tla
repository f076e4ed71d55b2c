----------------------------- MODULE FormsProofs ----------------------------
(***************************************************************************)
(* What the settings pages guarantee for any number of requests and edits, *)
(* any tabs, API clients and faults: the types, that updates of a JSON     *)
(* column that do not overlap keep each other's fields, that the tabs of   *)
(* the chatbot page do not take back an edit that was saved before, and    *)
(* that an unedited form shows what is stored, with the exceptions that    *)
(* Forms names at OwnEditsStand and FormShowsRow.                          *)
(***************************************************************************)
EXTENDS Forms, TLAPS

-----------------------------------------------------------------------------
(* The tables of forms, columns and queries.                               *)

LEMMA FormTable ==
  /\ ChatbotForms = {"general", "ai", "rateLimit"}
  /\ AllForms = {"general", "ai", "rateLimit", "appearance", "embed", "branding"}
  /\ Columns["general"] = {"name", "isPublic"} /\ Columns["ai"] = {"aiModel"}
  /\ Columns["rateLimit"] = {"rateLimitMessages"} /\ Columns["appearance"] = {"theme", "headerColor"}
  /\ Columns["embed"] = {"embedAllowedDomains"}
  /\ Columns["branding"] = {"primaryColor", "fontFamily"}
BY DEF ChatbotForms, AllForms, Columns

LEMMA ColumnTable ==
  /\ AllColumns = {"name", "isPublic", "aiModel", "rateLimitMessages", "theme", "headerColor", "embedAllowedDomains",
                   "primaryColor", "fontFamily"}
  /\ ChatbotColumns = {"name", "isPublic", "aiModel", "rateLimitMessages"}
  /\ \A f \in AllForms : Columns[f] \subseteq AllColumns
  /\ \A f \in ChatbotForms : Columns[f] \subseteq ChatbotColumns
<1>1. \A c : c \in AllColumns <=> \E f \in AllForms : c \in Columns[f]
  BY DEF AllColumns
<1>2. \A c : c \in ChatbotColumns <=> \E f \in ChatbotForms : c \in Columns[f]
  BY DEF ChatbotColumns
<1> QED BY <1>1, <1>2, FormTable

LEMMA Disjoint ==
  ASSUME NEW f \in AllForms, NEW g \in AllForms, f # g
  PROVE  Columns[f] \cap Columns[g] = {}
BY FormTable

LEMMA TabTable ==
  /\ DOMAIN Tabs = {"general", "ai", "rateLimit", "embed", "branding"}
  /\ \A f \in ChatbotForms : Tabs[f] = {f} /\ TabColumns(f) = Columns[f]
  /\ Tabs["embed"] = {"appearance", "embed"} /\ Tabs["branding"] = {"branding"}
  /\ TabColumns("embed") = Columns["appearance"] \cup Columns["embed"]
  /\ TabColumns("branding") = Columns["branding"]
  /\ \A t \in DOMAIN Tabs : TabColumns(t) \subseteq AllColumns
  /\ \A t \in DOMAIN Tabs : \A f \in Tabs[t] : f \in AllForms /\ Columns[f] \subseteq TabColumns(t)
<1>1. DOMAIN Tabs = {"general", "ai", "rateLimit", "embed", "branding"}
  BY DEF Tabs
<1>2. /\ Tabs["general"] = {"general"} /\ Tabs["ai"] = {"ai"} /\ Tabs["rateLimit"] = {"rateLimit"}
      /\ Tabs["embed"] = {"appearance", "embed"} /\ Tabs["branding"] = {"branding"}
  BY DEF Tabs
<1>3. ASSUME NEW t, NEW c PROVE c \in TabColumns(t) <=> \E f \in Tabs[t] : c \in Columns[f]
  BY DEF TabColumns
<1>4. \A t \in DOMAIN Tabs : \A f \in Tabs[t] : f \in AllForms /\ Columns[f] \subseteq TabColumns(t)
  BY <1>1, <1>2, <1>3, FormTable
<1>a. ASSUME NEW t, NEW f, Tabs[t] = {f} PROVE TabColumns(t) = Columns[f]
  BY <1>3, <1>a
<1>5. \A f \in ChatbotForms : Tabs[f] = {f} /\ TabColumns(f) = Columns[f]
  <2>1. \A f \in ChatbotForms : Tabs[f] = {f}
    BY <1>2, FormTable
  <2> QED BY <2>1, <1>a
<1>6. \A t \in DOMAIN Tabs : TabColumns(t) \subseteq AllColumns
  BY <1>3, <1>4, ColumnTable
<1>7. TabColumns("embed") = Columns["appearance"] \cup Columns["embed"]
  BY <1>2, <1>3
<1>8. TabColumns("branding") = Columns["branding"]
  BY <1>2, <1>a
<1> QED BY <1>1, <1>2, <1>4, <1>5, <1>6, <1>7, <1>8

LEMMA QueryTable ==
  /\ \A f \in ChatbotForms : Query(f) = "chatbot" /\ Mutation(f) = "chatbot" /\ QueryOf(f) = "chatbot"
  /\ Query("appearance") = "embed" /\ Query("embed") = "embed" /\ Query("branding") = "branding"
  /\ Query("tenant") = "tenant"
  /\ QueryOf("embed") = "embed" /\ QueryOf("branding") = "branding"
  /\ QueryColumns("chatbot") = ChatbotColumns
  /\ \A q \in Queries : QueryColumns(q) \subseteq AllColumns
  /\ \A t \in DOMAIN Tabs : QueryOf(t) \in Queries /\ TabColumns(t) \subseteq QueryColumns(QueryOf(t))
<1>1. /\ \A f \in ChatbotForms : Query(f) = "chatbot" /\ Mutation(f) = "chatbot" /\ QueryOf(f) = "chatbot"
      /\ Query("appearance") = "embed" /\ Query("embed") = "embed" /\ Query("branding") = "branding"
      /\ Query("tenant") = "tenant"
      /\ QueryOf("embed") = "embed" /\ QueryOf("branding") = "branding"
  BY FormTable DEF Query, QueryOf, TabOf, Mutation
<1>2. ASSUME NEW q, NEW c PROVE c \in QueryColumns(q) <=> \E f \in AllForms : Query(f) = q /\ c \in Columns[f]
  BY DEF QueryColumns
<1>3. QueryColumns("chatbot") = ChatbotColumns
  <2>1. ASSUME NEW c PROVE c \in QueryColumns("chatbot") <=> \E f \in ChatbotForms : c \in Columns[f]
    <3>1. \A f \in AllForms : Query(f) = "chatbot" <=> f \in ChatbotForms
      BY <1>1, FormTable
    <3>2. ChatbotForms \subseteq AllForms
      BY FormTable
    <3> QED BY <1>2, <3>1, <3>2
  <2>2. \A c : c \in ChatbotColumns <=> \E f \in ChatbotForms : c \in Columns[f]
    BY DEF ChatbotColumns
  <2> QED BY <2>1, <2>2
<1>4. \A q \in Queries : QueryColumns(q) \subseteq AllColumns
  BY <1>2, ColumnTable
<1>5. ASSUME NEW t \in DOMAIN Tabs
      PROVE  QueryOf(t) \in Queries /\ TabColumns(t) \subseteq QueryColumns(QueryOf(t))
  <2>1. \A f \in Tabs[t] : f \in AllForms /\ Query(f) = QueryOf(t)
    BY <1>1, FormTable, TabTable
  <2>2. \A c \in TabColumns(t) : \E f \in Tabs[t] : c \in Columns[f]
    BY DEF TabColumns
  <2>3. TabColumns(t) \subseteq QueryColumns(QueryOf(t))
    BY <1>2, <2>1, <2>2
  <2>4. QueryOf(t) \in Queries
    BY <1>1, FormTable, TabTable DEF Queries
  <2> QED BY <2>3, <2>4
<1> QED BY <1>1, <1>3, <1>4, <1>5

(* The chatbot's forms are accepted, the others are refused; the deployment *)
(* tab and the widget do not find what they look for.                      *)
LEMMA AcceptTable ==
  /\ \A f \in ChatbotForms : Accepts(Dto(f), Sent[f])
  /\ \A f \in AllForms \ ChatbotForms : ~Accepts(Dto(f), Sent[f])
  /\ Understood("chatbot") /\ ~Understood("deployment") /\ ~Understood("widget")
<1>1. Accepts(UpdateChatbotDto, Sent["general"]) /\ Accepts(UpdateChatbotDto, Sent["ai"])
      /\ Accepts(UpdateChatbotDto, Sent["rateLimit"])
  BY DEF Accepts, UpdateChatbotDto, Sent
<1>2. ~Accepts(UpdateAppearanceDto, Sent["appearance"])
  BY DEF Accepts, UpdateAppearanceDto, Sent
<1>3. ~Accepts(UpdateEmbedSettingsDto, Sent["embed"])
  BY DEF Accepts, UpdateEmbedSettingsDto, Sent
<1>4. ~Accepts(UpdateBrandingDto, Sent["branding"])
  BY DEF Accepts, UpdateBrandingDto, Sent
<1>5. /\ \A f \in ChatbotForms : Dto(f) = UpdateChatbotDto
      /\ Dto("appearance") = UpdateAppearanceDto /\ Dto("embed") = UpdateEmbedSettingsDto
      /\ Dto("branding") = UpdateBrandingDto
  BY FormTable DEF Dto
<1>6. Understood("chatbot") /\ ~Understood("deployment") /\ ~Understood("widget")
  BY DEF Understood, KeyRead, KeysGiven
<1> QED BY <1>1, <1>2, <1>3, <1>4, <1>5, <1>6, FormTable

LEMMA DocumentTable ==
  /\ Documents = {"branding", "appearance"} /\ Documents \subseteq AllForms /\ "tenant" \notin Documents
  /\ Document("tenant") = "branding" /\ (\A f \in AllForms : Document(f) = f)
  /\ \A f \in ChatbotForms : f \in AllForms /\ f \notin Documents /\ f # "tenant"
  /\ \A f \in AllForms \cup {"tenant"} : Document(f) \in AllForms
  /\ \A f \in AllForms \cup {"tenant"} : f \notin ChatbotForms => Document(f) \notin ChatbotForms
BY FormTable DEF Documents, Document

-----------------------------------------------------------------------------
(* Some columns with values.                                               *)

Partial == UNION {[C -> Values] : C \in SUBSET AllColumns}

LEMMA PartialIn ==
  ASSUME NEW C, C \subseteq AllColumns, NEW s \in [C -> Values]
  PROVE  s \in Partial
BY DEF Partial

LEMMA PartialOut ==
  ASSUME NEW s \in Partial
  PROVE  DOMAIN s \subseteq AllColumns /\ s \in [DOMAIN s -> Values]
BY DEF Partial

LEMMA ValuesZero == 0 \in Values
BY BoundsAssumption DEF Values

LEMMA UnloadedPartial == Unloaded \in Partial /\ DOMAIN Unloaded = {}
<1>1. Unloaded \in [{} -> Values]
  BY DEF Unloaded
<1> QED BY <1>1, PartialIn

LEMMA EmptyUnloaded ==
  ASSUME NEW s \in Partial, DOMAIN s = {}
  PROVE  s = Unloaded
BY PartialOut DEF Unloaded

LEMMA ZeroPartial ==
  ASSUME NEW C, C \subseteq AllColumns
  PROVE  Zero(C) \in Partial /\ DOMAIN Zero(C) = C
<1>1. Zero(C) \in [C -> Values]
  BY ValuesZero DEF Zero
<1> QED BY <1>1, PartialIn

LEMMA RestrictedPartial ==
  ASSUME NEW s \in Partial, NEW C
  PROVE  /\ Restricted(s, C) \in Partial /\ DOMAIN Restricted(s, C) = DOMAIN s \cap C
         /\ \A c \in DOMAIN s \cap C : Restricted(s, C)[c] = s[c]
<1>1. Restricted(s, C) \in [DOMAIN s \cap C -> Values] /\ DOMAIN s \cap C \subseteq AllColumns
  BY PartialOut DEF Restricted
<1>2. Restricted(s, C) \in Partial
  BY <1>1, PartialIn
<1> QED BY <1>1, <1>2 DEF Restricted

LEMMA OverlayColumns ==
  ASSUME NEW new \in Partial, NEW old \in [AllColumns -> Values]
  PROVE  /\ Overlay(new, old) \in [AllColumns -> Values]
         /\ \A c \in AllColumns : Overlay(new, old)[c] = IF c \in DOMAIN new THEN new[c] ELSE old[c]
BY PartialOut DEF Overlay

LEMMA RowPartial ==
  ASSUME NEW s \in [AllColumns -> Values]
  PROVE  s \in Partial
BY PartialIn

-----------------------------------------------------------------------------
(* The types, in full.                                                     *)

Senders == {None, "page", "answered", "orphan", "client"}
ReqRecords ==
  [pc: PCs, form: AllForms \cup {"tenant"}, body: Partial, edited: SUBSET AllColumns, saw: Partial,
   late: BOOLEAN, met: BOOLEAN, by: Senders]
PageRecords ==
  [tab: DOMAIN Tabs \cup {"away", "crashed"}, shown: Partial, edited: SUBSET AllColumns, late: BOOLEAN,
   awaits: [Mutations -> Requests \cup {None}]]
FetchRecords == [at: {"idle", "stale", "sent", "answered"}, rows: Partial, missed: BOOLEAN]

Types ==
  /\ row \in [AllColumns -> Values] /\ wanted \in [AllColumns -> Values]
  /\ req \in [Requests -> ReqRecords]
  /\ acts \in Values
  /\ page \in PageRecords
  /\ cache \in [Queries -> Partial]
  /\ fetch \in [Queries -> FetchRecords]

FormColumns(f) == Columns[Document(f)]

(* What a request sends belongs to its form.  Who updates the branding      *)
(* sends what was edited; the page's own branding form is refused.         *)
RequestOK(R) ==
  /\ R.pc = "idle" => R = NoRequest
  /\ R.by = "page" => R.form \in AllForms /\ (R.pc = "refused" => R.form \notin ChatbotForms)
  /\ R.pc \in Busy =>
       /\ DOMAIN R.body \subseteq FormColumns(R.form) /\ R.edited \subseteq DOMAIN R.body
       /\ Document(R.form) \in Documents => R.edited = DOMAIN R.body
       /\ R.by = "page" => R.form \in ChatbotForms
       /\ R.by \in {"page", "orphan", "client"}
  /\ IF R.pc = "write" /\ R.form \in Documents THEN DOMAIN R.saw = Columns[R.form]
                                                ELSE R.saw = Unloaded
  /\ R.met => R.by # "page"
  /\ R.pc \in {"ok", "cut", "refused"} => R.body = Unloaded /\ R.edited = {}
RequestsOK == \A r \in Requests : RequestOK(req[r])

ShownOK(p) ==
  /\ p.shown = Unloaded \/ (p.tab \in DOMAIN Tabs /\ DOMAIN p.shown = TabColumns(p.tab))
  /\ p.edited \subseteq DOMAIN p.shown
FetchOK(q, fe) == fe.at = "answered" => DOMAIN fe.rows = QueryColumns(q)
CacheOK(q, s) == s = Unloaded \/ DOMAIN s = QueryColumns(q)

FormInv ==
  /\ Types /\ RequestsOK /\ ShownOK(page)
  /\ \A q \in Queries : CacheOK(q, cache[q]) /\ FetchOK(q, fetch[q])

LEMMA NoRequestOK == NoRequest \in ReqRecords /\ RequestOK(NoRequest)
<1>1. NoRequest \in ReqRecords
  BY UnloadedPartial, FormTable DEF NoRequest, ReqRecords, PCs, Senders
<1>2. /\ NoRequest.pc = "idle" /\ NoRequest.by = None /\ NoRequest.saw = Unloaded
      /\ NoRequest.met = FALSE
  BY DEF NoRequest
<1> QED BY <1>1, <1>2, NoneAssumption DEF RequestOK, Busy

LEMMA NoPageOK ==
  ASSUME NEW tab \in {"away", "crashed"}
  PROVE  /\ [NoPage EXCEPT !.tab = tab] \in PageRecords /\ ShownOK([NoPage EXCEPT !.tab = tab])
         /\ [NoPage EXCEPT !.tab = tab].tab = tab /\ [NoPage EXCEPT !.tab = tab].shown = Unloaded
         /\ NoPage \in PageRecords /\ ShownOK(NoPage) /\ NoPage.tab = "away" /\ NoPage.shown = Unloaded
         /\ NoPage.edited = {}
BY UnloadedPartial DEF NoPage, PageRecords, ShownOK

LEMMA RestOK ==
  /\ \A at \in {"idle", "stale", "sent"} : [AtRest EXCEPT !.at = at] \in FetchRecords
  /\ \A at \in {"idle", "stale", "sent"} : [AtRest EXCEPT !.at = at].at = at
  /\ \A at \in {"idle", "stale", "sent"} : [AtRest EXCEPT !.at = at].missed = FALSE
BY UnloadedPartial DEF AtRest, FetchRecords

LEMMA FormInit == Init => FormInv
<1> SUFFICES ASSUME Init PROVE FormInv
  OBVIOUS
<1>1. row \in [AllColumns -> Values] /\ wanted \in [AllColumns -> Values]
  BY ValuesZero DEF Init, Zero
<1>2. req \in [Requests -> ReqRecords] /\ RequestsOK
  BY NoRequestOK DEF Init, RequestsOK
<1>3. acts \in Values
  BY ValuesZero DEF Init
<1>4. page \in PageRecords /\ ShownOK(page)
  BY NoPageOK DEF Init
<1>5. cache \in [Queries -> Partial] /\ \A q \in Queries : CacheOK(q, cache[q])
  BY UnloadedPartial DEF Init, CacheOK
<1>6. fetch \in [Queries -> FetchRecords] /\ \A q \in Queries : FetchOK(q, fetch[q])
  BY RestOK DEF Init, FetchOK
<1> QED BY <1>1, <1>2, <1>3, <1>4, <1>5, <1>6 DEF FormInv, Types

LEMMA FormTypeOK == FormInv => TypeOK
<1> SUFFICES ASSUME FormInv PROVE TypeOK
  OBVIOUS
<1>1. ASSUME NEW r \in Requests
      PROVE  /\ req[r].pc \in PCs /\ req[r].form \in AllForms \cup {"tenant"}
             /\ req[r].by \in {None, "page", "answered", "orphan", "client"}
             /\ req[r].edited \subseteq DOMAIN req[r].body \/ req[r].pc = "idle"
             /\ req[r].saw = Unloaded \/ DOMAIN req[r].saw = Columns[req[r].form]
  <2>1. req[r] \in ReqRecords /\ RequestOK(req[r])
    BY DEF FormInv, Types, RequestsOK
  <2>2. req[r].pc \in PCs /\ req[r].form \in AllForms \cup {"tenant"} /\ req[r].by \in Senders
    BY <2>1 DEF ReqRecords
  <2>3. req[r].edited \subseteq DOMAIN req[r].body \/ req[r].pc = "idle"
    BY <2>1, <2>2 DEF RequestOK, PCs, Busy
  <2>4. req[r].saw = Unloaded \/ DOMAIN req[r].saw = Columns[req[r].form]
    BY <2>1, UnloadedPartial DEF RequestOK
  <2> QED BY <2>2, <2>3, <2>4 DEF Senders
<1>2. page \in PageRecords /\ ShownOK(page)
  BY DEF FormInv, Types
<1>3. page.tab \in DOMAIN Tabs \cup {"away", "crashed"} /\ page.edited \subseteq DOMAIN page.shown
  BY <1>2 DEF PageRecords, ShownOK
<1>4. ASSUME NEW q \in Queries PROVE cache[q] = Unloaded \/ cache[q] \in [QueryColumns(q) -> Values]
  <2>1. cache[q] \in Partial /\ CacheOK(q, cache[q])
    BY DEF FormInv, Types
  <2> QED BY <2>1, PartialOut DEF CacheOK
<1> QED BY <1>1, <1>3, <1>4 DEF TypeOK, FormInv, Types

-----------------------------------------------------------------------------
(* What the steps do to the requests.                                      *)

(* A request goes on as it was, except that it may have met another one.   *)
Kept(q) ==
  /\ req'[q].pc = req[q].pc /\ req'[q].form = req[q].form /\ req'[q].body = req[q].body
  /\ req'[q].edited = req[q].edited /\ req'[q].saw = req[q].saw /\ req'[q].late = req[q].late
  /\ req'[q].by = req[q].by /\ (req[q].met => req'[q].met)
  /\ req'[q].met => req[q].met \/ req[q].by # "page"
Writes(q, d) == req[q].pc \in Busy /\ Document(req[q].form) = d

LEMMA KeptOK ==
  ASSUME NEW q \in Requests, req \in [Requests -> ReqRecords], req' \in [Requests -> ReqRecords],
         RequestsOK, Kept(q), req[q].pc # "idle" \/ req'[q] = req[q]
  PROVE  RequestOK(req'[q])
<1>1. RequestOK(req[q])
  BY DEF RequestsOK
<1>2. CASE req'[q] = req[q]
  BY <1>1, <1>2
<1>3. CASE req[q].pc # "idle"
  BY <1>1, <1>3 DEF RequestOK, Kept
<1> QED BY <1>2, <1>3

(* A new request. *)
Started(r, f, body, first, edited, late, by) ==
  /\ req[r].pc = "idle" /\ req'[r].pc = first /\ req'[r].form = f /\ req'[r].by = by
  /\ req'[r].late = late /\ req'[r].saw = Unloaded
  /\ first = "refused" => req'[r].body = Unloaded /\ req'[r].edited = {}
  /\ first # "refused" => req'[r].body = body /\ req'[r].edited = edited
  /\ req[r].met = FALSE
  /\ \A d \in Documents : Document(f) = d /\ first # "refused" /\ ~req'[r].met => \A q \in Requests : ~Writes(q, d)
  /\ \A q \in Requests \ {r} : Kept(q)

LEMMA StartKind ==
  ASSUME FormInv, NEW r \in Requests, NEW f \in AllForms \cup {"tenant"}, NEW body \in Partial,
         NEW first \in {"find", "write", "refused"}, NEW edited \in SUBSET AllColumns,
         NEW late \in BOOLEAN, NEW by \in {"page", "client"},
         Start(r, f, body, first, edited, late, by),
         by = "page" => f \in AllForms /\ (first # "refused" <=> f \in ChatbotForms),
         first = "write" => f \notin Documents,
         DOMAIN body \subseteq FormColumns(f) /\ edited \subseteq DOMAIN body,
         Document(f) \in Documents /\ first # "refused" => edited = DOMAIN body
  PROVE  /\ Started(r, f, body, first, edited, late, by)
         /\ req' \in [Requests -> ReqRecords] /\ RequestsOK'
<1> DEFINE writes == Document(f) \in Documents /\ first # "refused"
           met == {q \in Requests : req[q].pc \in Busy /\ Document(req[q].form) = Document(f)}
           b == IF first = "refused" THEN Unloaded ELSE body
           e == IF first = "refused" THEN {} ELSE edited
           m == writes /\ met # {}
           new == [NoRequest EXCEPT !.pc = first, !.form = f, !.by = by, !.late = late, !.body = b,
                     !.edited = e, !.met = m]
<1>1. /\ req[r].pc = "idle"
      /\ req' = [q \in Requests |-> IF q = r THEN new
                   ELSE IF writes /\ q \in met THEN [req[q] EXCEPT !.met = TRUE] ELSE req[q]]
  BY Zenon DEF Start, At
<1>2. req \in [Requests -> ReqRecords] /\ RequestsOK
  BY DEF FormInv, Types
<1>3. b \in Partial /\ e \in SUBSET AllColumns /\ m \in BOOLEAN
  BY UnloadedPartial
<1>4. /\ new \in ReqRecords
      /\ new.pc = first /\ new.form = f /\ new.by = by /\ new.late = late /\ new.body = b
      /\ new.edited = e /\ new.met = m /\ new.saw = Unloaded
  <2> HIDE DEF b, e, m
  <2>1. first \in PCs /\ by \in Senders
    BY DEF PCs, Busy, Senders
  <2> QED BY <1>3, <2>1, UnloadedPartial DEF NoRequest, ReqRecords
<1>5. req'[r] = new
  BY <1>1
<1>6. ASSUME NEW q \in Requests \ {r}
      PROVE  req'[q] \in ReqRecords /\ Kept(q) /\ (req[q].pc # "idle" \/ req'[q] = req[q])
  <2>1. req[q] \in ReqRecords
    BY <1>2
  <2>2. CASE writes /\ q \in met
    <3>1. req'[q] = [req[q] EXCEPT !.met = TRUE] /\ req[q].pc \in Busy
      BY <1>1, <2>2
    <3>2. [req[q] EXCEPT !.met = TRUE] \in ReqRecords
      BY <2>1 DEF ReqRecords
    <3>3. req[q].by # "page"
      BY <1>2, <2>2, <3>1, DocumentTable DEF RequestsOK, RequestOK
    <3>4. Kept(q)
      BY <2>1, <3>1, <3>3 DEF Kept, ReqRecords
    <3> QED BY <3>1, <3>2, <3>4 DEF Busy
  <2>3. CASE ~(writes /\ q \in met)
    <3>1. req'[q] = req[q]
      BY <1>1, <2>3
    <3> QED BY <2>1, <3>1 DEF Kept
  <2> QED BY <2>2, <2>3
<1>7. req' \in [Requests -> ReqRecords]
  <2>1. DOMAIN req' = Requests /\ \A q \in Requests : req'[q] \in ReqRecords
    <3> HIDE DEF new
    <3> QED BY <1>1, <1>4, <1>5, <1>6
  <2>2. req' = [q \in Requests |-> req'[q]]
    <3> HIDE DEF new, met
    <3> QED BY <1>1
  <2> QED BY <2>1, <2>2
<1>8. Started(r, f, body, first, edited, late, by)
  <2>1. ASSUME NEW d \in Documents, Document(f) = d, first # "refused", ~req'[r].met
        PROVE  \A q \in Requests : ~Writes(q, d)
    BY <1>4, <1>5, <2>1 DEF Writes
  <2>2. req[r].met = FALSE
    <3>1. req[r] = NoRequest
      BY <1>1, <1>2 DEF RequestsOK, RequestOK
    <3>2. NoRequest.met = FALSE
      BY DEF NoRequest
    <3> QED BY <3>1, <3>2
  <2>3. /\ req'[r].pc = first /\ req'[r].form = f /\ req'[r].by = by /\ req'[r].late = late
        /\ req'[r].saw = Unloaded /\ req'[r].body = b /\ req'[r].edited = e
    BY <1>4, <1>5
  <2> HIDE DEF new, met, m
  <2> QED BY <1>1, <1>6, <2>1, <2>2, <2>3 DEF Started
<1>9. RequestOK(req'[r])
  <2> HIDE DEF new, met, m
  <2>1. first \in {"find", "write"} => b = body /\ e = edited
    OBVIOUS
  <2>2. first = "refused" => b = Unloaded /\ e = {}
    OBVIOUS
  <2>3. m => by # "page"
    BY DocumentTable DEF m
  <2> HIDE DEF b, e
  <2> QED BY <1>4, <1>5, <2>1, <2>2, <2>3, DocumentTable DEF RequestOK, Busy
<1>10. RequestsOK'
  <2>1. \A q \in Requests : RequestOK(req'[q])
    BY <1>2, <1>6, <1>7, <1>9, KeptOK
  <2> QED BY <2>1 DEF RequestsOK
<1> QED BY <1>7, <1>8, <1>10

(* A request changes alone. *)
LEMMA OneRequest ==
  ASSUME FormInv, NEW r \in Requests, NEW R \in ReqRecords, RequestOK(R), req' = [req EXCEPT ![r] = R]
  PROVE  /\ req' \in [Requests -> ReqRecords] /\ RequestsOK' /\ req'[r] = R
         /\ \A q \in Requests \ {r} : req'[q] = req[q] /\ Kept(q)
<1>1. req \in [Requests -> ReqRecords] /\ RequestsOK
  BY DEF FormInv, Types
<1>2. /\ req' \in [Requests -> ReqRecords] /\ req'[r] = R
      /\ \A q \in Requests \ {r} : req'[q] = req[q]
  BY <1>1
<1>3. \A q \in Requests : RequestOK(req'[q])
  BY <1>1, <1>2 DEF RequestsOK
<1> QED BY <1>2, <1>3 DEF RequestsOK, Kept

LEMMA FinishKind ==
  ASSUME FormInv, NEW r \in Requests, NEW pc \in {"ok", "cut"}, Finish(r, pc)
  PROVE  /\ req' \in [Requests -> ReqRecords] /\ RequestsOK'
         /\ \A q \in Requests \ {r} : Kept(q)
         /\ req'[r].pc = pc /\ req'[r].body = Unloaded /\ req'[r].edited = {} /\ req'[r].saw = Unloaded
         /\ req'[r].form = req[r].form /\ req'[r].by = req[r].by /\ req'[r].late = req[r].late
         /\ req'[r].met = req[r].met
<1> DEFINE R == [req[r] EXCEPT !.pc = pc, !.body = Unloaded, !.saw = Unloaded, !.edited = {}]
<1>1. req \in [Requests -> ReqRecords] /\ RequestOK(req[r])
  BY DEF FormInv, Types, RequestsOK
<1>2. req' = [req EXCEPT ![r] = R]
  BY <1>1 DEF Finish
<1>3. /\ R \in ReqRecords
      /\ R.pc = pc /\ R.body = Unloaded /\ R.edited = {} /\ R.saw = Unloaded
      /\ R.form = req[r].form /\ R.by = req[r].by /\ R.late = req[r].late /\ R.met = req[r].met
  <2>1. pc \in PCs
    BY DEF PCs
  <2>2. req[r] \in ReqRecords
    BY <1>1
  <2> QED BY <2>1, <2>2, UnloadedPartial DEF ReqRecords
<1> HIDE DEF R
<1>4. RequestOK(R)
  BY <1>1, <1>3 DEF RequestOK, Busy
<1> QED BY <1>2, <1>3, <1>4, OneRequest

(* The handlers. *)
ApiKind(r) ==
  \E f \in AllForms \cup {"tenant"}, body \in Partial, first \in {"find", "write"} :
    /\ Started(r, f, body, first, DOMAIN body, FALSE, "client")
    /\ UNCHANGED <<row, wanted, page, cache, fetch>>

LEMMA ValuesNext == acts \in Values /\ acts < MaxActs => acts + 1 \in Values
BY BoundsAssumption DEF Values

LEMMA BodyOf ==
  ASSUME NEW C, C \subseteq AllColumns, NEW v \in Values
  PROVE  [x \in C |-> v] \in Partial /\ DOMAIN [x \in C |-> v] = C
<1>1. [x \in C |-> v] \in [C -> Values]
  OBVIOUS
<1> QED BY <1>1, PartialIn

LEMMA ApiStep ==
  ASSUME FormInv, NEW r \in Requests, CallApi(r)
  PROVE  FormInv' /\ ApiKind(r)
<1>1. acts' \in Values /\ acts + 1 \in Values
  BY ValuesNext DEF CallApi, FormInv, Types
<1>2. UNCHANGED <<row, wanted, page, cache, fetch>>
  BY DEF CallApi, dbVars
<1>4. ASSUME NEW f \in AllForms \cup {"tenant"}, NEW body \in Partial, DOMAIN body \subseteq FormColumns(f),
             NEW first \in {"find", "write"}, Start(r, f, body, first, DOMAIN body, FALSE, "client"),
             first = "write" => f \notin Documents
      PROVE  FormInv' /\ ApiKind(r)
  <2>1. DOMAIN body \in SUBSET AllColumns /\ first \in {"find", "write", "refused"} /\ FALSE \in BOOLEAN
        /\ "client" \in {"page", "client"}
    BY PartialOut
  <2>2. /\ Started(r, f, body, first, DOMAIN body, FALSE, "client")
        /\ req' \in [Requests -> ReqRecords] /\ RequestsOK'
    BY <1>4, <2>1, StartKind
  <2>3. FormInv'
    BY <1>1, <1>2, <2>2 DEF FormInv, Types
  <2> QED BY <1>2, <2>2, <2>3 DEF ApiKind
<1>5. CASE \E f \in ClientForms \cap AllForms : \E c \in Columns[f] :
             Start(r, f, [x \in {c} |-> acts + 1], "find", {c}, FALSE, "client")
  <2>1. PICK f \in AllForms : \E c \in Columns[f] :
          Start(r, f, [x \in {c} |-> acts + 1], "find", {c}, FALSE, "client")
    BY <1>5
  <2>2. PICK c \in Columns[f] : Start(r, f, [x \in {c} |-> acts + 1], "find", {c}, FALSE, "client")
    BY <2>1
  <2>3. {c} \subseteq FormColumns(f) /\ {c} \subseteq AllColumns
    BY ColumnTable, DocumentTable DEF FormColumns
  <2>4. PICK body \in Partial : body = [x \in {c} |-> acts + 1] /\ DOMAIN body = {c}
    BY <1>1, <2>3, BodyOf
  <2> QED BY <1>4, <2>2, <2>3, <2>4
<1>6. CASE \E sent \in SUBSET Columns["branding"] :
             Start(r, "tenant", [x \in Columns["branding"] |-> IF x \in sent THEN acts + 1 ELSE 0],
                   "write", Columns["branding"], FALSE, "client")
  <2>1. PICK sent \in SUBSET Columns["branding"] :
             Start(r, "tenant", [x \in Columns["branding"] |-> IF x \in sent THEN acts + 1 ELSE 0],
                   "write", Columns["branding"], FALSE, "client")
    BY <1>6
  <2>2. Columns["branding"] = FormColumns("tenant") /\ Columns["branding"] \subseteq AllColumns
    BY ColumnTable, DocumentTable DEF FormColumns
  <2> DEFINE sends == [x \in Columns["branding"] |-> IF x \in sent THEN acts + 1 ELSE 0]
  <2>3. sends \in [Columns["branding"] -> Values] /\ DOMAIN sends = Columns["branding"]
    BY <1>1, ValuesZero
  <2>4. sends \in Partial
    <3> HIDE DEF sends
    <3> QED BY <2>2, <2>3, PartialIn
  <2>5. Start(r, "tenant", sends, "write", DOMAIN sends, FALSE, "client")
    BY <2>1, <2>3
  <2> HIDE DEF sends
  <2> QED BY <1>4, <2>2, <2>3, <2>4, <2>5, DocumentTable
<1> QED BY <1>5, <1>6 DEF CallApi

FindKind(r) ==
  /\ req[r].pc = "find" /\ req'[r].pc = "write"
  /\ req'[r].form = req[r].form /\ req'[r].body = req[r].body /\ req'[r].edited = req[r].edited
  /\ req'[r].late = req[r].late /\ req'[r].by = req[r].by /\ req'[r].met = req[r].met
  /\ req[r].form \in Documents => \A c \in Columns[req[r].form] : req'[r].saw[c] = row[c]
  /\ \A q \in Requests \ {r} : Kept(q)
  /\ UNCHANGED <<row, wanted, page, cache, fetch>>

LEMMA FindStep ==
  ASSUME FormInv, NEW r \in Requests, FindRow(r)
  PROVE  FormInv' /\ FindKind(r)
<1>1. /\ req \in [Requests -> ReqRecords] /\ req[r] \in ReqRecords /\ RequestOK(req[r])
      /\ req[r].pc = "find"
  BY DEF FormInv, Types, RequestsOK, FindRow, At
<1> DEFINE mine == Restricted(row, Columns[req[r].form])
           seen == IF req[r].form \in Documents THEN mine ELSE req[r].saw
           R == [req[r] EXCEPT !.pc = "write", !.saw = seen]
<1>2. req' = [req EXCEPT ![r] = R] /\ UNCHANGED <<row, wanted, acts, page, cache, fetch>>
  BY <1>1 DEF FindRow, dbVars, pageVars
<1>3. req[r].form \in Documents =>
        mine \in Partial /\ DOMAIN mine = Columns[req[r].form] /\ \A c \in Columns[req[r].form] : mine[c] = row[c]
  <2> SUFFICES ASSUME req[r].form \in Documents
               PROVE  /\ mine \in Partial /\ DOMAIN mine = Columns[req[r].form]
                      /\ \A c \in Columns[req[r].form] : mine[c] = row[c]
    OBVIOUS
  <2>1. row \in [AllColumns -> Values] /\ Columns[req[r].form] \subseteq AllColumns
    BY DocumentTable, ColumnTable DEF FormInv, Types
  <2> DEFINE C == Columns[req[r].form]
  <2>2. row \in Partial /\ DOMAIN row \cap C = C
    BY <2>1, RowPartial
  <2>3. C \subseteq AllColumns
    BY <2>1
  <2> HIDE DEF C
  <2>4. /\ Restricted(row, C) \in Partial /\ DOMAIN Restricted(row, C) = C
        /\ \A c \in C : Restricted(row, C)[c] = row[c]
    BY <2>2, RestrictedPartial
  <2> QED BY <2>4 DEF C
<1> HIDE DEF mine
<1>4. seen \in Partial
  BY <1>1, <1>3 DEF ReqRecords
<1>5. /\ R \in ReqRecords /\ R.pc = "write" /\ R.saw = seen
      /\ R.form = req[r].form /\ R.body = req[r].body /\ R.edited = req[r].edited
      /\ R.late = req[r].late /\ R.by = req[r].by /\ R.met = req[r].met
  <2> HIDE DEF seen
  <2>1. "write" \in PCs
    BY DEF PCs, Busy
  <2> QED BY <1>1, <1>4, <2>1 DEF ReqRecords
<1> HIDE DEF R
<1>6. RequestOK(R)
  BY <1>1, <1>3, <1>5 DEF RequestOK, Busy
<1>7. /\ req' \in [Requests -> ReqRecords] /\ RequestsOK' /\ req'[r] = R
      /\ \A q \in Requests \ {r} : Kept(q)
  BY <1>2, <1>5, <1>6, OneRequest
<1>8. FormInv'
  BY <1>2, <1>7 DEF FormInv, Types
<1>9. req[r].form \in Documents => \A c \in Columns[req[r].form] : R.saw[c] = row[c]
  BY <1>3, <1>5
<1> QED BY <1>1, <1>2, <1>5, <1>7, <1>8, <1>9 DEF FindKind

WriteKind(r) ==
  /\ req[r].pc = "write" /\ req'[r].pc = "ok" /\ req'[r].form = req[r].form
  /\ req'[r].by = req[r].by /\ req'[r].late = req[r].late /\ req'[r].met = req[r].met
  /\ \A c \in AllColumns :
       row'[c] = IF c \in DOMAIN req[r].body THEN req[r].body[c]
                 ELSE IF c \in DOMAIN req[r].saw THEN req[r].saw[c] ELSE row[c]
  /\ \A c \in AllColumns :
       wanted'[c] = IF c \in DOMAIN req[r].body /\ c \in req[r].edited THEN req[r].body[c] ELSE wanted[c]
  /\ \A q \in Requests \ {r} : Kept(q)
  /\ UNCHANGED <<page, cache, fetch>>

LEMMA WriteStep ==
  ASSUME FormInv, NEW r \in Requests, Write(r)
  PROVE  FormInv' /\ WriteKind(r)
<1>1. req[r] \in ReqRecords /\ req[r].pc = "write"
  BY DEF FormInv, Types, Write, At
<1>2. req[r].body \in Partial /\ req[r].saw \in Partial
  BY <1>1 DEF ReqRecords
<1>3. row \in [AllColumns -> Values] /\ wanted \in [AllColumns -> Values]
  BY DEF FormInv, Types
<1> DEFINE seen == Overlay(req[r].saw, row)
           sent == Restricted(req[r].body, req[r].edited)
<1>4. row' = Overlay(req[r].body, seen) /\ wanted' = Overlay(sent, wanted) /\ Finish(r, "ok")
  BY Zenon DEF Write
<1>5. /\ seen \in [AllColumns -> Values]
      /\ \A c \in AllColumns : seen[c] = IF c \in DOMAIN req[r].saw THEN req[r].saw[c] ELSE row[c]
  BY <1>2, <1>3, OverlayColumns
<1>6. /\ sent \in Partial /\ DOMAIN sent = DOMAIN req[r].body \cap req[r].edited
      /\ \A c \in DOMAIN sent : sent[c] = req[r].body[c]
  <2>1. /\ sent \in Partial /\ DOMAIN sent = DOMAIN req[r].body \cap req[r].edited
        /\ \A c \in DOMAIN req[r].body \cap req[r].edited : sent[c] = req[r].body[c]
    BY <1>2, RestrictedPartial
  <2> QED BY <2>1
<1> HIDE DEF seen, sent
<1>7. /\ row' \in [AllColumns -> Values] /\ wanted' \in [AllColumns -> Values]
      /\ \A c \in AllColumns : row'[c] = IF c \in DOMAIN req[r].body THEN req[r].body[c] ELSE seen[c]
      /\ \A c \in AllColumns : wanted'[c] = IF c \in DOMAIN sent THEN sent[c] ELSE wanted[c]
  BY <1>2, <1>3, <1>4, <1>5, <1>6, OverlayColumns
<1>8. UNCHANGED <<acts, page, cache, fetch>>
  BY DEF Write, pageVars
<1>9. /\ req' \in [Requests -> ReqRecords] /\ RequestsOK'
      /\ \A q \in Requests \ {r} : Kept(q)
      /\ req'[r].pc = "ok" /\ req'[r].form = req[r].form /\ req'[r].by = req[r].by
      /\ req'[r].late = req[r].late /\ req'[r].met = req[r].met
  BY <1>4, FinishKind
<1>10. FormInv'
  BY <1>7, <1>8, <1>9 DEF FormInv, Types
<1> QED BY <1>1, <1>5, <1>6, <1>7, <1>8, <1>9, <1>10 DEF WriteKind

CutKind(r) ==
  /\ req'[r].pc = "cut" /\ req'[r].met = req[r].met /\ req'[r].by = req[r].by /\ req'[r].form = req[r].form
  /\ \A q \in Requests \ {r} : Kept(q)
  /\ UNCHANGED <<row, wanted, page, cache, fetch>>

LEMMA CutStep ==
  ASSUME FormInv, NEW r \in Requests, CutRequest(r)
  PROVE  FormInv' /\ CutKind(r)
<1>1. Finish(r, "cut") /\ UNCHANGED <<row, wanted, acts, page, cache, fetch>>
  BY DEF CutRequest, dbVars, pageVars
<1>2. /\ req' \in [Requests -> ReqRecords] /\ RequestsOK'
      /\ \A q \in Requests \ {r} : Kept(q)
      /\ req'[r].pc = "cut" /\ req'[r].met = req[r].met /\ req'[r].by = req[r].by
      /\ req'[r].form = req[r].form
  BY <1>1, FinishKind
<1>3. FormInv'
  BY <1>1, <1>2 DEF FormInv, Types
<1> QED BY <1>1, <1>2, <1>3 DEF CutKind

(* Who was answered no longer saves, and its data is fetched again. *)
PageKept ==
  /\ page'.tab = page.tab /\ page'.shown = page.shown /\ page'.edited = page.edited
  /\ page'.late = page.late
Overtaken(q) == fetch'[q].at \in {"sent", "stale"} \/ fetch'[q].missed

AnswerKind(r) ==
  /\ req[r].by = "page" /\ req'[r].by = "answered" /\ req[r].pc \in {"ok", "refused", "cut"}
  /\ req'[r].pc = req[r].pc /\ req'[r].late = req[r].late /\ req'[r].met = req[r].met
  /\ \A q \in Requests \ {r} : Kept(q)
  /\ PageKept
  /\ \A m \in Mutations : page'.awaits[m] = IF page.awaits[m] = r THEN None ELSE page.awaits[m]
  /\ \A q \in Queries : fetch'[q] = fetch[q] \/ Overtaken(q)
  /\ req[r].pc = "ok" => Overtaken(Query(req[r].form))
  /\ UNCHANGED <<row, wanted, acts, cache>>

LEMMA InvalidateKind ==
  ASSUME FormInv, NEW d \in Queries, Invalidate(d)
  PROVE  /\ fetch' \in [Queries -> FetchRecords] /\ \A q \in Queries : FetchOK(q, fetch'[q])
         /\ \A q \in Queries : fetch'[q] = fetch[q] \/ Overtaken(q)
         /\ Overtaken(d)
<1>1. fetch \in [Queries -> FetchRecords] /\ \A q \in Queries : FetchOK(q, fetch[q])
  BY DEF FormInv, Types
<1>2. fetch[d] \in FetchRecords /\ FetchOK(d, fetch[d])
  BY <1>1
<1>3. /\ DOMAIN fetch' = Queries /\ fetch' = [q \in Queries |-> fetch'[q]]
      /\ \A q \in Queries \ {d} : fetch'[q] = fetch[q]
  BY <1>1, Zenon DEF Invalidate
<1>4. fetch'[d] \in FetchRecords /\ FetchOK(d, fetch'[d]) /\ Overtaken(d)
  <2>1. CASE d \in ActiveQueries(page.tab)
    <3>1. fetch'[d] = [AtRest EXCEPT !.at = "sent"]
      BY <1>1, <2>1 DEF Invalidate
    <3>2. "sent" \in {"idle", "stale", "sent"}
      OBVIOUS
    <3> QED BY <3>1, <3>2, RestOK DEF FetchOK, Overtaken
  <2>2. CASE d \notin ActiveQueries(page.tab) /\ fetch[d].at \in {"sent", "answered"}
    <3>1. fetch'[d] = [fetch[d] EXCEPT !.missed = TRUE]
      BY <1>1, <2>2 DEF Invalidate
    <3>2. [fetch[d] EXCEPT !.missed = TRUE] \in FetchRecords
      BY <1>2 DEF FetchRecords
    <3>3. /\ [fetch[d] EXCEPT !.missed = TRUE].at = fetch[d].at
          /\ [fetch[d] EXCEPT !.missed = TRUE].rows = fetch[d].rows
          /\ [fetch[d] EXCEPT !.missed = TRUE].missed = TRUE
      BY <1>2 DEF FetchRecords
    <3> QED BY <1>2, <3>1, <3>2, <3>3 DEF FetchOK, Overtaken
  <2>3. CASE d \notin ActiveQueries(page.tab) /\ fetch[d].at \notin {"sent", "answered"}
    <3>1. fetch'[d] = [fetch[d] EXCEPT !.at = "stale"]
      BY <1>1, <2>3 DEF Invalidate
    <3>2. [fetch[d] EXCEPT !.at = "stale"] \in FetchRecords /\ [fetch[d] EXCEPT !.at = "stale"].at = "stale"
      BY <1>2 DEF FetchRecords
    <3> QED BY <3>1, <3>2 DEF FetchOK, Overtaken
  <2> QED BY <2>1, <2>2, <2>3
<1>5. \A q \in Queries : fetch'[q] \in FetchRecords /\ FetchOK(q, fetch'[q])
  BY <1>1, <1>3, <1>4
<1>6. fetch' \in [Queries -> FetchRecords]
  BY <1>3, <1>5
<1> QED BY <1>3, <1>4, <1>5, <1>6

LEMMA AnswerStep ==
  ASSUME FormInv, NEW r \in Requests, Answer(r)
  PROVE  FormInv' /\ AnswerKind(r)
<1>1. /\ req \in [Requests -> ReqRecords] /\ req[r] \in ReqRecords /\ RequestOK(req[r])
      /\ req[r].by = "page" /\ req[r].pc \in {"ok", "refused", "cut"}
  BY DEF FormInv, Types, RequestsOK, Answer
<1> DEFINE R == [req[r] EXCEPT !.by = "answered", !.form = "general"]
           awaits == [m \in Mutations |-> IF page.awaits[m] = r THEN None ELSE page.awaits[m]]
<1>2. req' = [req EXCEPT ![r] = R]
  BY <1>1 DEF Answer, NoRequest
<1>3. /\ R \in ReqRecords /\ R.by = "answered" /\ R.form = "general" /\ R.pc = req[r].pc
      /\ R.late = req[r].late /\ R.met = req[r].met /\ R.body = req[r].body /\ R.edited = req[r].edited
      /\ R.saw = req[r].saw
  <2>1. "answered" \in Senders /\ "general" \in AllForms \cup {"tenant"}
    BY FormTable DEF Senders
  <2> QED BY <1>1, <2>1 DEF ReqRecords
<1>4. RequestOK(R)
  <2> HIDE DEF R
  <2> QED BY <1>1, <1>3 DEF RequestOK, Busy
<1>5. /\ req' \in [Requests -> ReqRecords] /\ RequestsOK' /\ req'[r] = R
      /\ \A q \in Requests \ {r} : Kept(q)
  <2> HIDE DEF R
  <2> QED BY <1>2, <1>3, <1>4, OneRequest
<1>6. page \in PageRecords /\ ShownOK(page)
  BY DEF FormInv, Types
<1>7. page' = [page EXCEPT !.awaits = awaits]
  BY Zenon DEF Answer
<1>8. page.awaits \in [Mutations -> Requests \cup {None}]
  BY <1>6 DEF PageRecords
<1>9. awaits \in [Mutations -> Requests \cup {None}]
  BY <1>8
<1>10. page' \in PageRecords /\ PageKept /\ page'.awaits = awaits
  <2> HIDE DEF awaits
  <2> QED BY <1>6, <1>7, <1>9 DEF PageRecords, PageKept
<1>11. ShownOK(page)'
  BY <1>6, <1>10 DEF ShownOK, PageKept
<1>12. UNCHANGED <<row, wanted, acts, cache>>
  BY DEF Answer, dbVars
<1>13. /\ fetch' \in [Queries -> FetchRecords] /\ \A q \in Queries : FetchOK(q, fetch'[q])
       /\ \A q \in Queries : fetch'[q] = fetch[q] \/ Overtaken(q)
       /\ req[r].pc = "ok" => Overtaken(Query(req[r].form))
  <2>1. CASE req[r].pc = "ok"
    <3>1. Query(req[r].form) \in Queries
      <4>1. req[r].form \in AllForms
        BY <1>1 DEF RequestOK
      <4> QED BY <4>1, QueryTable, FormTable DEF Queries
    <3>2. Invalidate(Query(req[r].form))
      BY <2>1 DEF Answer, At
    <3> QED BY <3>1, <3>2, InvalidateKind
  <2>2. CASE req[r].pc # "ok"
    <3>1. fetch' = fetch
      BY <2>2 DEF Answer, At
    <3> QED BY <2>2, <3>1 DEF FormInv, Types
  <2> QED BY <2>1, <2>2
<1>14. FormInv'
  BY <1>5, <1>10, <1>11, <1>12, <1>13 DEF FormInv, Types
<1>15. \A m \in Mutations : page'.awaits[m] = IF page.awaits[m] = r THEN None ELSE page.awaits[m]
  BY <1>10
<1> HIDE DEF R, awaits
<1> QED BY <1>1, <1>3, <1>5, <1>10, <1>12, <1>13, <1>14, <1>15 DEF AnswerKind

(* The forms on the page are saved and edited. *)
SaveKind(r) ==
  \E f \in AllForms, body \in Partial, first \in {"find", "refused"} :
    /\ f \in Tabs[page.tab] /\ page.tab \in DOMAIN Tabs
    /\ first = "find" <=> f \in ChatbotForms
    /\ DOMAIN body \subseteq DOMAIN page.shown /\ \A c \in DOMAIN body : body[c] = page.shown[c]
    /\ Started(r, f, body, first, page.edited \cap Columns[f], page.late, "page")
    /\ page.awaits[Mutation(f)] = None
    /\ PageKept
    /\ \A m \in Mutations : page'.awaits[m] = IF m = Mutation(f) THEN r ELSE page.awaits[m]
    /\ UNCHANGED <<row, wanted, acts, cache, fetch>>

LEMMA SaveStep ==
  ASSUME FormInv, NEW r \in Requests, NEW f, f \in Tabs[page.tab], Mounted, Save(r, f)
  PROVE  FormInv' /\ SaveKind(r)
<1>1. page \in PageRecords /\ ShownOK(page)
  BY DEF FormInv, Types
<1>2. /\ page.tab \in DOMAIN Tabs /\ DOMAIN page.shown = TabColumns(page.tab)
      /\ page.edited \subseteq DOMAIN page.shown
  BY <1>1 DEF ShownOK, Mounted
<1>3. f \in AllForms /\ Columns[f] \subseteq TabColumns(page.tab)
  BY <1>2, TabTable
<1>4. page.shown \in Partial /\ page.late \in BOOLEAN /\ page.awaits \in [Mutations -> Requests \cup {None}]
  BY <1>1 DEF PageRecords
<1> DEFINE first == IF Accepts(Dto(f), Sent[f]) THEN "find" ELSE "refused"
           edited == page.edited \cap Columns[f]
<1>5. PICK body \in Partial : /\ body = Restricted(page.shown, Columns[f]) /\ DOMAIN body = Columns[f]
                              /\ \A c \in Columns[f] : body[c] = page.shown[c]
  <2>1. DOMAIN page.shown \cap Columns[f] = Columns[f]
    BY <1>2, <1>3
  <2>2. /\ Restricted(page.shown, Columns[f]) \in Partial
        /\ DOMAIN Restricted(page.shown, Columns[f]) = DOMAIN page.shown \cap Columns[f]
        /\ \A c \in DOMAIN page.shown \cap Columns[f] : Restricted(page.shown, Columns[f])[c] = page.shown[c]
    BY <1>4, RestrictedPartial
  <2> QED BY <2>1, <2>2
<1>6. /\ first \in {"find", "refused"} /\ (first = "find" <=> f \in ChatbotForms)
      /\ (first # "refused" <=> f \in ChatbotForms)
  BY <1>3, AcceptTable
<1>7. Start(r, f, body, first, edited, page.late, "page") /\ page.awaits[Mutation(f)] = None
  BY <1>5 DEF Save
<1>8. edited \in SUBSET AllColumns /\ edited \subseteq DOMAIN body
  BY <1>3, <1>5, ColumnTable
<1>9. DOMAIN body \subseteq FormColumns(f) /\ f # "tenant"
  BY <1>3, <1>5, FormTable, DocumentTable DEF FormColumns
<1>10. Document(f) \in Documents /\ first # "refused" => edited = DOMAIN body
  BY <1>3, <1>6, DocumentTable
<1> HIDE DEF first, edited
<1>11. /\ Started(r, f, body, first, edited, page.late, "page")
       /\ req' \in [Requests -> ReqRecords] /\ RequestsOK'
  <2>1. first \in {"find", "write", "refused"} /\ first # "write" /\ "page" \in {"page", "client"}
        /\ f \in AllForms \cup {"tenant"}
    BY <1>3, <1>6
  <2>2. /\ Start(r, f, body, first, edited, page.late, "page")
        /\ edited \in SUBSET AllColumns /\ page.late \in BOOLEAN
        /\ "page" = "page" => f \in AllForms /\ (first # "refused" <=> f \in ChatbotForms)
        /\ first = "write" => f \notin Documents
        /\ DOMAIN body \subseteq FormColumns(f) /\ edited \subseteq DOMAIN body
        /\ Document(f) \in Documents /\ first # "refused" => edited = DOMAIN body
    BY <1>3, <1>4, <1>6, <1>7, <1>8, <1>9, <1>10, <2>1
  <2> QED BY <2>1, <2>2, StartKind
<1>12. page' = [page EXCEPT !.awaits[Mutation(f)] = r] /\ UNCHANGED <<row, wanted, acts, cache, fetch>>
  BY DEF Save, dbVars
<1>13. Mutation(f) \in Mutations
  BY <1>3, FormTable DEF Mutation, Mutations
<1>14. /\ page' \in PageRecords /\ PageKept
       /\ \A m \in Mutations : page'.awaits[m] = IF m = Mutation(f) THEN r ELSE page.awaits[m]
  <2> DEFINE d == Mutation(f)
             awaits == [page.awaits EXCEPT ![d] = r]
  <2>1. awaits \in [Mutations -> Requests \cup {None}]
    BY <1>4
  <2>2. \A m \in Mutations : awaits[m] = IF m = d THEN r ELSE page.awaits[m]
    BY <1>4, <1>13
  <2>3. page' = [page EXCEPT !.awaits = awaits]
    BY <1>1, <1>12 DEF PageRecords
  <2> HIDE DEF awaits
  <2>4. page' \in PageRecords /\ PageKept /\ page'.awaits = awaits
    BY <1>1, <2>1, <2>3 DEF PageRecords, PageKept
  <2> QED BY <2>2, <2>4
<1>15. ShownOK(page)'
  BY <1>1, <1>14 DEF ShownOK, PageKept
<1>16. FormInv'
  BY <1>11, <1>12, <1>14, <1>15 DEF FormInv, Types
<1>17. DOMAIN body \subseteq DOMAIN page.shown /\ \A c \in DOMAIN body : body[c] = page.shown[c]
  BY <1>2, <1>3, <1>5
<1> QED BY <1>2, <1>3, <1>6, <1>7, <1>11, <1>12, <1>14, <1>16, <1>17 DEF SaveKind, edited

EditKind ==
  /\ page'.tab = page.tab /\ page'.late = page.late /\ page'.awaits = page.awaits
  /\ DOMAIN page'.shown = DOMAIN page.shown /\ page.edited \subseteq page'.edited
  /\ \A x \in DOMAIN page.shown \ page'.edited : page'.shown[x] = page.shown[x]
  /\ UNCHANGED <<row, wanted, req, cache, fetch>>

LEMMA EditStep ==
  ASSUME FormInv, NEW f, f \in Tabs[page.tab], Mounted, NEW c \in Columns[f], Edit(c)
  PROVE  FormInv' /\ EditKind
<1>1. page \in PageRecords /\ ShownOK(page)
  BY DEF FormInv, Types
<1>2. /\ page.tab \in DOMAIN Tabs /\ DOMAIN page.shown = TabColumns(page.tab)
      /\ page.edited \subseteq DOMAIN page.shown
  BY <1>1 DEF ShownOK, Mounted
<1>3. c \in DOMAIN page.shown
  BY <1>2, TabTable
<1>4. acts' \in Values /\ acts' = acts + 1 /\ UNCHANGED <<row, wanted, req, cache, fetch>>
  BY ValuesNext DEF Edit, FormInv, Types, dbVars
<1>5. page.shown \in Partial /\ page.edited \in SUBSET AllColumns
  BY <1>1 DEF PageRecords
<1>6. DOMAIN page.shown \subseteq AllColumns /\ page.shown \in [DOMAIN page.shown -> Values]
  BY <1>5, PartialOut
<1> DEFINE shown == [page.shown EXCEPT ![c] = acts']
           edited == page.edited \cup {c}
<1>7. /\ shown \in [DOMAIN page.shown -> Values]
      /\ \A x \in DOMAIN page.shown \ {c} : shown[x] = page.shown[x]
  BY <1>4, <1>6
<1>8. shown \in Partial /\ DOMAIN shown = DOMAIN page.shown
  <2>1. DOMAIN shown = DOMAIN page.shown
    OBVIOUS
  <2> HIDE DEF shown
  <2> QED BY <1>6, <1>7, <2>1, PartialIn
<1>9. page' = [page EXCEPT !.shown = shown, !.edited = edited]
  BY <1>1, <1>4 DEF Edit, PageRecords
<1>10. edited \in SUBSET AllColumns /\ edited \subseteq DOMAIN page.shown /\ page.edited \subseteq edited
       /\ c \in edited
  BY <1>2, <1>3, <1>6
<1>11. /\ page' \in PageRecords /\ page'.shown = shown /\ page'.edited = edited /\ page'.tab = page.tab
       /\ page'.late = page.late /\ page'.awaits = page.awaits
  <2> HIDE DEF shown, edited
  <2> QED BY <1>1, <1>8, <1>9, <1>10 DEF PageRecords
<1> HIDE DEF shown, edited
<1>12. ShownOK(page)'
  BY <1>2, <1>8, <1>10, <1>11 DEF ShownOK
<1>13. FormInv'
  BY <1>4, <1>11, <1>12 DEF FormInv, Types, RequestsOK
<1> QED BY <1>4, <1>7, <1>8, <1>10, <1>11, <1>13 DEF EditKind

-----------------------------------------------------------------------------
(* What the other steps of the page do.                                    *)

LEMMA TabFacts ==
  ASSUME NEW tab \in DOMAIN Tabs
  PROVE  /\ QueryOf(tab) \in Queries /\ TabColumns(tab) \subseteq AllColumns
         /\ TabColumns(tab) \subseteq QueryColumns(QueryOf(tab))
BY TabTable, QueryTable

LEMMA MountOK ==
  ASSUME page \in PageRecords, NEW tab \in DOMAIN Tabs, NEW values \in Partial, NEW unsettled \in BOOLEAN,
         values = Unloaded \/ DOMAIN values = QueryColumns(QueryOf(tab))
  PROVE  LET M == Mount(tab, values, unsettled) IN
         /\ M \in PageRecords
         /\ M.tab = tab /\ M.edited = {} /\ M.late = (unsettled \/ Saving(QueryOf(tab)))
         /\ values # Unloaded => DOMAIN M.shown = TabColumns(tab)
         /\ tab \in ChatbotForms => \A c \in DOMAIN M.shown : c \in DOMAIN values /\ M.shown[c] = values[c]
         /\ {page.tab, tab} \subseteq BotPage => M.awaits["chatbot"] = page.awaits["chatbot"]
<1> DEFINE shown == IF Understood(QueryOf(tab)) THEN Restricted(values, TabColumns(tab)) ELSE Zero(TabColumns(tab))
           late == unsettled \/ Saving(QueryOf(tab))
           awaits == [m \in Mutations |->
                        IF m = "chatbot" /\ {page.tab, tab} \subseteq BotPage THEN page.awaits[m] ELSE None]
           M == [page EXCEPT !.tab = tab, !.shown = shown, !.edited = {}, !.late = late, !.awaits = awaits]
<1>1. Mount(tab, values, unsettled) = M
  BY DEF Mount
<1>2. TabColumns(tab) \subseteq AllColumns /\ TabColumns(tab) \subseteq QueryColumns(QueryOf(tab))
  BY TabFacts
<1>3. /\ Restricted(values, TabColumns(tab)) \in Partial
      /\ DOMAIN Restricted(values, TabColumns(tab)) = DOMAIN values \cap TabColumns(tab)
      /\ \A c \in DOMAIN values \cap TabColumns(tab) : Restricted(values, TabColumns(tab))[c] = values[c]
  BY RestrictedPartial
<1>4. Zero(TabColumns(tab)) \in Partial /\ DOMAIN Zero(TabColumns(tab)) = TabColumns(tab)
  BY <1>2, ZeroPartial
<1>5. shown \in Partial /\ (values # Unloaded => DOMAIN shown = TabColumns(tab))
  BY <1>2, <1>3, <1>4
<1>6. tab \in ChatbotForms => \A c \in DOMAIN shown : c \in DOMAIN values /\ shown[c] = values[c]
  BY <1>3, QueryTable, AcceptTable
<1>7. late \in BOOLEAN
  OBVIOUS
<1>8. page.awaits \in [Mutations -> Requests \cup {None}]
  BY DEF PageRecords
<1>9. /\ awaits \in [Mutations -> Requests \cup {None}]
      /\ {page.tab, tab} \subseteq BotPage => awaits["chatbot"] = page.awaits["chatbot"]
  BY <1>8 DEF Mutations
<1>10. M.late = (unsettled \/ Saving(QueryOf(tab)))
  BY DEF PageRecords
<1> HIDE DEF shown, late, awaits
<1>11. /\ M \in PageRecords /\ M.tab = tab /\ M.edited = {} /\ M.shown = shown /\ M.awaits = awaits
  BY <1>5, <1>7, <1>9 DEF PageRecords
<1> HIDE DEF M
<1> QED BY <1>1, <1>5, <1>6, <1>9, <1>10, <1>11

LEMMA EmptyOK ==
  ASSUME NEW M \in PageRecords
  PROVE  LET N == [M EXCEPT !.shown = Unloaded] IN
         /\ N \in PageRecords /\ N.tab = M.tab /\ N.edited = M.edited /\ N.shown = Unloaded /\ N.late = M.late
         /\ N.awaits = M.awaits
BY UnloadedPartial DEF PageRecords

OpenKind(tab) ==
  /\ page.tab # "crashed"
  /\ tab = "branding" => page.tab = "away"
  /\ page'.tab = tab /\ page'.edited = {}
  /\ tab \in ChatbotForms /\ ~page'.late =>
       /\ fetch["chatbot"].at = "idle" /\ ~fetch["chatbot"].missed /\ ~Saving("chatbot")
       /\ \A c \in DOMAIN page'.shown : c \in DOMAIN cache["chatbot"] /\ page'.shown[c] = cache["chatbot"][c]
  /\ tab \in ChatbotForms /\ Saving("chatbot") => page'.late
  /\ {page.tab, tab} \subseteq BotPage => page'.awaits["chatbot"] = page.awaits["chatbot"]
  /\ \A q \in Queries : fetch'[q] = fetch[q] \/ Overtaken(q)
  /\ UNCHANGED <<row, wanted, req, cache>>

LEMMA OpenStep ==
  ASSUME FormInv, NEW tab \in DOMAIN Tabs, OpenTab(tab)
  PROVE  FormInv' /\ OpenKind(tab)
<1>1. /\ page \in PageRecords /\ cache \in [Queries -> Partial] /\ fetch \in [Queries -> FetchRecords]
      /\ \A q \in Queries : CacheOK(q, cache[q]) /\ FetchOK(q, fetch[q])
  BY DEF FormInv, Types
<1> DEFINE d == QueryOf(tab)
<1>2. d \in Queries
  BY TabFacts
<1>3. cache[d] \in Partial /\ (cache[d] = Unloaded \/ DOMAIN cache[d] = QueryColumns(d))
      /\ fetch[d] \in FetchRecords
  BY <1>1, <1>2 DEF CacheOK
<1> DEFINE unsettled == fetch[d].at # "idle" \/ fetch[d].missed
<1>4. unsettled \in BOOLEAN
  BY <1>3 DEF FetchRecords
<1>5. PICK M : M = Mount(tab, cache[d], unsettled)
  OBVIOUS
<1>6. page' = [M EXCEPT !.shown = IF cache[d] = Unloaded THEN Unloaded ELSE M.shown]
  <2>1. page' = [Mount(tab, cache[d], unsettled) EXCEPT !.shown = IF cache[d] = Unloaded THEN Unloaded ELSE @]
    BY DEF OpenTab
  <2> HIDE DEF unsettled, d
  <2> QED BY <1>5, <2>1
<1> HIDE DEF unsettled
<1>7. /\ M \in PageRecords
      /\ M.tab = tab /\ M.edited = {} /\ M.late = (unsettled \/ Saving(d))
      /\ cache[d] # Unloaded => DOMAIN M.shown = TabColumns(tab)
      /\ tab \in ChatbotForms => \A c \in DOMAIN M.shown : c \in DOMAIN cache[d] /\ M.shown[c] = cache[d][c]
      /\ {page.tab, tab} \subseteq BotPage => M.awaits["chatbot"] = page.awaits["chatbot"]
  BY <1>1, <1>3, <1>4, <1>5, MountOK
<1>8. /\ [M EXCEPT !.shown = Unloaded] \in PageRecords
      /\ [M EXCEPT !.shown = Unloaded].tab = tab /\ [M EXCEPT !.shown = Unloaded].edited = {}
      /\ [M EXCEPT !.shown = Unloaded].shown = Unloaded
      /\ [M EXCEPT !.shown = Unloaded].late = M.late
      /\ [M EXCEPT !.shown = Unloaded].awaits = M.awaits
  BY <1>7, EmptyOK
<1>9. cache[d] # Unloaded => page' = M
  BY <1>6, <1>7 DEF PageRecords
<1>10. cache[d] = Unloaded => page' = [M EXCEPT !.shown = Unloaded]
  BY <1>6
<1>11. /\ page' \in PageRecords /\ page'.tab = tab /\ page'.edited = {} /\ page'.late = M.late
       /\ page'.awaits = M.awaits
       /\ page'.shown = Unloaded \/ DOMAIN page'.shown = TabColumns(tab)
       /\ tab \in ChatbotForms => \A c \in DOMAIN page'.shown : c \in DOMAIN cache[d] /\ page'.shown[c] = cache[d][c]
  BY <1>7, <1>8, <1>9, <1>10, UnloadedPartial
<1>12. ShownOK(page)'
  BY <1>11 DEF ShownOK
<1>13. UNCHANGED <<row, wanted, req, acts, cache>>
  BY DEF OpenTab, dbVars
<1>14. /\ fetch' \in [Queries -> FetchRecords] /\ \A q \in Queries : FetchOK(q, fetch'[q])
       /\ \A q \in Queries : fetch'[q] = fetch[q] \/ Overtaken(q)
  <2>1. DOMAIN fetch' = Queries /\ fetch' = [q \in Queries |-> fetch'[q]]
    BY DEF OpenTab
  <2>2. \A q \in Queries : fetch'[q] = fetch[q] \/ fetch'[q] = [AtRest EXCEPT !.at = "sent"]
    BY DEF OpenTab
  <2>3. "sent" \in {"idle", "stale", "sent"}
    OBVIOUS
  <2>4. \A q \in Queries : /\ fetch'[q] \in FetchRecords /\ FetchOK(q, fetch'[q])
                           /\ fetch'[q] = fetch[q] \/ Overtaken(q)
    BY <1>1, <2>2, <2>3, RestOK DEF FetchOK, Overtaken
  <2> QED BY <2>1, <2>4
<1>15. FormInv'
  BY <1>1, <1>11, <1>12, <1>13, <1>14 DEF FormInv, Types, RequestsOK
<1>16. page.tab # "crashed" /\ (tab = "branding" => page.tab = "away")
  BY DEF OpenTab
<1>17. tab \in ChatbotForms => d = "chatbot"
  BY QueryTable
<1>18. tab \in ChatbotForms /\ ~page'.late =>
         fetch["chatbot"].at = "idle" /\ ~fetch["chatbot"].missed /\ ~Saving("chatbot")
  BY <1>7, <1>11, <1>17 DEF unsettled
<1>19. tab \in ChatbotForms /\ Saving("chatbot") => page'.late
  BY <1>7, <1>11, <1>17
<1> QED BY <1>7, <1>11, <1>13, <1>14, <1>15, <1>16, <1>17, <1>18, <1>19 DEF OpenKind

ReadKind(q) ==
  /\ fetch'[q].at = "answered" /\ \A c \in DOMAIN fetch'[q].rows : fetch'[q].rows[c] = row[c]
  /\ \A x \in Queries \ {q} : fetch'[x] = fetch[x]
  /\ UNCHANGED <<row, wanted, req, page, cache>>

LEMMA ReadStep ==
  ASSUME FormInv, NEW q \in Queries, ReadQuery(q)
  PROVE  FormInv' /\ ReadKind(q)
<1>1. /\ fetch \in [Queries -> FetchRecords] /\ fetch[q] \in FetchRecords /\ row \in [AllColumns -> Values]
      /\ \A x \in Queries : FetchOK(x, fetch[x])
  BY DEF FormInv, Types
<1>2. PICK rows : rows = Restricted(row, QueryColumns(q))
  OBVIOUS
<1>3. rows \in Partial /\ DOMAIN rows = QueryColumns(q) /\ \A c \in DOMAIN rows : rows[c] = row[c]
  <2>1. row \in Partial /\ DOMAIN row \cap QueryColumns(q) = QueryColumns(q)
    BY <1>1, RowPartial, QueryTable
  <2> QED BY <1>2, <2>1, RestrictedPartial
<1> DEFINE F == [fetch[q] EXCEPT !.at = "answered", !.rows = rows]
<1>4. F \in FetchRecords /\ F.at = "answered" /\ F.rows = rows
  BY <1>1, <1>3 DEF FetchRecords
<1>5. fetch' = [fetch EXCEPT ![q] = F] /\ UNCHANGED <<row, wanted, req, acts, page, cache>>
  BY <1>1, <1>2 DEF ReadQuery, dbVars
<1> HIDE DEF F
<1>6. /\ fetch' \in [Queries -> FetchRecords] /\ fetch'[q] = F
      /\ \A x \in Queries \ {q} : fetch'[x] = fetch[x]
  BY <1>1, <1>4, <1>5
<1>7. \A x \in Queries : FetchOK(x, fetch'[x])
  BY <1>1, <1>3, <1>4, <1>6 DEF FetchOK
<1>8. FormInv'
  BY <1>5, <1>6, <1>7 DEF FormInv, Types, RequestsOK
<1> QED BY <1>3, <1>4, <1>5, <1>6, <1>8 DEF ReadKind

ShowKind(q) ==
  /\ fetch[q].at = "answered" /\ fetch'[q].at = "idle" /\ fetch'[q].missed = fetch[q].missed
  /\ cache'[q] = fetch[q].rows
  /\ \A x \in Queries \ {q} : fetch'[x] = fetch[x] /\ cache'[x] = cache[x]
  /\ page'.tab = page.tab /\ page'.edited \subseteq DOMAIN page'.shown
  /\ \/ page' = page
     \/ /\ page.tab \in DOMAIN Tabs /\ QueryOf(page.tab) = q /\ page'.edited = {}
        /\ page.tab \in ChatbotForms /\ ~page'.late =>
             /\ ~fetch[q].missed /\ ~Saving(q)
             /\ \A c \in DOMAIN page'.shown : c \in DOMAIN fetch[q].rows /\ page'.shown[c] = fetch[q].rows[c]
        /\ page.tab \in ChatbotForms /\ Saving("chatbot") => page'.late
        /\ page.tab \in BotPage => page'.awaits["chatbot"] = page.awaits["chatbot"]
  /\ UNCHANGED <<row, wanted, req>>

LEMMA ShowStep ==
  ASSUME FormInv, NEW q \in Queries, ShowQuery(q)
  PROVE  FormInv' /\ ShowKind(q)
<1>1. /\ page \in PageRecords /\ ShownOK(page) /\ cache \in [Queries -> Partial]
      /\ fetch \in [Queries -> FetchRecords] /\ fetch[q] \in FetchRecords
      /\ \A x \in Queries : CacheOK(x, cache[x]) /\ FetchOK(x, fetch[x])
  BY DEF FormInv, Types
<1>2. fetch[q].at = "answered" /\ UNCHANGED <<row, wanted, req, acts>>
  BY DEF ShowQuery, dbVars
<1>3. fetch[q].rows \in Partial /\ DOMAIN fetch[q].rows = QueryColumns(q) /\ fetch[q].missed \in BOOLEAN
  BY <1>1, <1>2 DEF FetchRecords, FetchOK
<1>4. PICK rows \in Partial : rows = fetch[q].rows
  BY <1>3
<1>5. /\ cache' \in [Queries -> Partial] /\ cache'[q] = rows
      /\ \A x \in Queries \ {q} : cache'[x] = cache[x]
  <2>1. cache' = [cache EXCEPT ![q] = rows]
    BY <1>4 DEF ShowQuery
  <2> QED BY <1>1, <2>1
<1>6. \A x \in Queries : CacheOK(x, cache'[x])
  BY <1>1, <1>3, <1>4, <1>5 DEF CacheOK
<1> DEFINE F == [fetch[q] EXCEPT !.at = "idle", !.rows = Unloaded]
<1>7. F \in FetchRecords /\ F.at = "idle" /\ F.missed = fetch[q].missed
  BY <1>1, UnloadedPartial DEF FetchRecords
<1>8. fetch' = [fetch EXCEPT ![q] = F]
  BY <1>1 DEF ShowQuery
<1> HIDE DEF F
<1>9. /\ fetch' \in [Queries -> FetchRecords] /\ fetch'[q] = F
      /\ \A x \in Queries \ {q} : fetch'[x] = fetch[x]
  BY <1>1, <1>7, <1>8
<1>10. \A x \in Queries : FetchOK(x, fetch'[x])
  BY <1>1, <1>7, <1>9 DEF FetchOK
<1>11. CASE page.tab \in DOMAIN Tabs /\ QueryOf(page.tab) = q /\ ~Mounted
  <2>1. page' = Mount(page.tab, rows, fetch[q].missed)
    BY <1>4, <1>11 DEF ShowQuery
  <2>2. DOMAIN rows = QueryColumns(QueryOf(page.tab))
    BY <1>3, <1>4, <1>11
  <2>3. /\ page' \in PageRecords /\ page'.tab = page.tab /\ page'.edited = {}
        /\ page'.late = (fetch[q].missed \/ Saving(q))
        /\ rows # Unloaded => DOMAIN page'.shown = TabColumns(page.tab)
        /\ page.tab \in ChatbotForms => \A c \in DOMAIN page'.shown : c \in DOMAIN rows /\ page'.shown[c] = rows[c]
        /\ {page.tab, page.tab} \subseteq BotPage => page'.awaits["chatbot"] = page.awaits["chatbot"]
    <3>1. PICK t \in DOMAIN Tabs : t = page.tab /\ QueryOf(t) = q
      BY <1>11
    <3>2. PICK late \in BOOLEAN : late = fetch[q].missed
      BY <1>3
    <3>3. PICK M : M = Mount(t, rows, late)
      OBVIOUS
    <3>4. DOMAIN rows = QueryColumns(QueryOf(t))
      BY <2>2, <3>1
    <3>5. /\ M \in PageRecords /\ M.tab = t /\ M.edited = {}
          /\ M.late = (late \/ Saving(QueryOf(t)))
          /\ rows # Unloaded => DOMAIN M.shown = TabColumns(t)
          /\ t \in ChatbotForms => \A c \in DOMAIN M.shown : c \in DOMAIN rows /\ M.shown[c] = rows[c]
          /\ {page.tab, t} \subseteq BotPage => M.awaits["chatbot"] = page.awaits["chatbot"]
      <4>1. rows = Unloaded \/ DOMAIN rows = QueryColumns(QueryOf(t))
        BY <3>4
      <4>a. page \in PageRecords
        BY <1>1
      <4>2. /\ M \in PageRecords /\ M.tab = t /\ M.edited = {}
            /\ M.late = (late \/ Saving(QueryOf(t)))
            /\ rows # Unloaded => DOMAIN M.shown = TabColumns(t)
        BY <3>3, <4>a, <4>1, MountOK
      <4>3. /\ t \in ChatbotForms => \A c \in DOMAIN M.shown : c \in DOMAIN rows /\ M.shown[c] = rows[c]
            /\ {page.tab, t} \subseteq BotPage => M.awaits["chatbot"] = page.awaits["chatbot"]
        BY <3>3, <4>a, <4>1, MountOK
      <4> QED BY <4>2, <4>3
    <3>6. page' = M
      BY <2>1, <3>1, <3>2, <3>3
    <3> QED BY <3>1, <3>2, <3>5, <3>6
  <2>4. rows # Unloaded
    <3>1. TabColumns(page.tab) # {} /\ TabColumns(page.tab) \subseteq QueryColumns(q)
      <4>1. TabColumns(page.tab) # {}
        BY <1>11, TabTable, FormTable
      <4> QED BY <1>11, <4>1, TabFacts
    <3> QED BY <1>3, <1>4, <3>1, UnloadedPartial
  <2>5. ShownOK(page)'
    BY <1>11, <2>3, <2>4 DEF ShownOK
  <2>6. FormInv'
    BY <1>2, <1>5, <1>6, <1>9, <1>10, <2>3, <2>5 DEF FormInv, Types, RequestsOK
  <2>7. page.tab \in ChatbotForms => q = "chatbot"
    BY <1>11, QueryTable
  <2>8. /\ page'.edited \subseteq DOMAIN page'.shown
        /\ page.tab \in ChatbotForms /\ ~page'.late => ~fetch[q].missed /\ ~Saving(q)
        /\ page.tab \in ChatbotForms /\ Saving("chatbot") => page'.late
        /\ page.tab \in BotPage => page'.awaits["chatbot"] = page.awaits["chatbot"]
    BY <2>3, <2>7
  <2> QED BY <1>2, <1>4, <1>5, <1>7, <1>9, <1>11, <2>3, <2>6, <2>8 DEF ShowKind
<1>12. CASE ~(page.tab \in DOMAIN Tabs /\ QueryOf(page.tab) = q /\ ~Mounted)
  <2>1. page' = page
    BY <1>12 DEF ShowQuery
  <2>2. FormInv'
    BY <1>1, <1>2, <1>5, <1>6, <1>9, <1>10, <2>1 DEF FormInv, Types, RequestsOK
  <2> QED BY <1>1, <1>2, <1>4, <1>5, <1>7, <1>9, <2>1, <2>2 DEF ShowKind, ShownOK
<1> QED BY <1>11, <1>12

(* The deployment tab and the widget crash. *)
CrashKind ==
  /\ page'.tab = "crashed" /\ page'.shown = Unloaded
  /\ UNCHANGED <<row, wanted, req, cache, fetch>>

LEMMA CrashStep ==
  ASSUME FormInv, OpenDeployment \/ OpenWidget
  PROVE  FormInv' /\ CrashKind
<1>1. page' = [NoPage EXCEPT !.tab = "crashed"] /\ UNCHANGED <<row, wanted, req, acts, cache, fetch>>
  BY AcceptTable DEF OpenDeployment, OpenWidget, dbVars
<1>2. "crashed" \in {"away", "crashed"}
  OBVIOUS
<1>3. page' \in PageRecords /\ ShownOK(page') /\ page'.tab = "crashed" /\ page'.shown = Unloaded
  BY <1>1, <1>2, NoPageOK
<1>4. FormInv'
  BY <1>1, <1>3 DEF FormInv, Types, RequestsOK, ShownOK
<1> QED BY <1>1, <1>3, <1>4 DEF CrashKind

ReloadKind ==
  /\ page'.tab = "away" /\ page'.shown = Unloaded
  /\ \A r \in Requests : /\ req'[r].pc = req[r].pc /\ req'[r].form = req[r].form /\ req'[r].met = req[r].met
                         /\ req'[r].body = req[r].body /\ req'[r].saw = req[r].saw
                         /\ req'[r].edited = req[r].edited /\ req'[r].late = req[r].late
                         /\ req'[r].by = IF req[r].by = "page" THEN "orphan" ELSE req[r].by
  /\ \A q \in Queries : cache'[q] = Unloaded /\ fetch'[q].at = "stale"
  /\ UNCHANGED <<row, wanted>>

LEMMA ReloadStep ==
  ASSUME FormInv, Reload
  PROVE  FormInv' /\ ReloadKind
<1>1. /\ page' = NoPage /\ cache' = [q \in Queries |-> Unloaded]
      /\ fetch' = [q \in Queries |-> [AtRest EXCEPT !.at = "stale"]]
      /\ req' = [r \in Requests |-> IF req[r].by = "page" THEN [req[r] EXCEPT !.by = "orphan"] ELSE req[r]]
      /\ UNCHANGED <<row, wanted, acts>>
  BY DEF Reload, dbVars
<1>2. page' \in PageRecords /\ ShownOK(page') /\ page'.tab = "away" /\ page'.shown = Unloaded
  <2>1. "away" \in {"away", "crashed"}
    OBVIOUS
  <2> QED BY <1>1, <2>1, NoPageOK
<1>3. /\ cache' \in [Queries -> Partial] /\ fetch' \in [Queries -> FetchRecords]
      /\ \A q \in Queries : cache'[q] = Unloaded /\ fetch'[q].at = "stale"
  <2>1. "stale" \in {"idle", "stale", "sent"}
    OBVIOUS
  <2> QED BY <1>1, <2>1, RestOK, UnloadedPartial
<1>4. ASSUME NEW r \in Requests
      PROVE  /\ req'[r] \in ReqRecords /\ RequestOK(req'[r])
             /\ req'[r].pc = req[r].pc /\ req'[r].form = req[r].form /\ req'[r].met = req[r].met
             /\ req'[r].body = req[r].body /\ req'[r].saw = req[r].saw
             /\ req'[r].edited = req[r].edited /\ req'[r].late = req[r].late
             /\ req'[r].by = IF req[r].by = "page" THEN "orphan" ELSE req[r].by
  <2>1. req[r] \in ReqRecords /\ RequestOK(req[r])
    BY DEF FormInv, Types, RequestsOK
  <2>2. CASE req[r].by # "page"
    BY <1>1, <2>1, <2>2
  <2>3. CASE req[r].by = "page"
    <3>1. req'[r] = [req[r] EXCEPT !.by = "orphan"]
      BY <1>1, <2>3
    <3>2. "orphan" \in Senders
      BY DEF Senders
    <3>3. /\ req'[r] \in ReqRecords /\ req'[r].by = "orphan"
          /\ req'[r].pc = req[r].pc /\ req'[r].form = req[r].form /\ req'[r].met = req[r].met
          /\ req'[r].body = req[r].body /\ req'[r].saw = req[r].saw
          /\ req'[r].edited = req[r].edited /\ req'[r].late = req[r].late
      BY <2>1, <3>1, <3>2 DEF ReqRecords
    <3>4. req[r].pc # "idle"
      BY <2>1, <2>3, NoneAssumption DEF RequestOK, NoRequest
    <3>5. RequestOK(req'[r])
      BY <2>1, <3>3, <3>4 DEF RequestOK
    <3> QED BY <2>3, <3>3, <3>5
  <2> QED BY <2>2, <2>3
<1>5. req' \in [Requests -> ReqRecords] /\ RequestsOK'
  <2>1. DOMAIN req' = Requests /\ req' = [r \in Requests |-> req'[r]]
    BY <1>1
  <2>2. \A r \in Requests : req'[r] \in ReqRecords /\ RequestOK(req'[r])
    BY <1>4
  <2> QED BY <2>1, <2>2 DEF RequestsOK
<1>6. \A q \in Queries : CacheOK(q, cache'[q]) /\ FetchOK(q, fetch'[q])
  BY <1>3 DEF CacheOK, FetchOK
<1>7. FormInv'
  BY <1>1, <1>2, <1>3, <1>5, <1>6 DEF FormInv, Types, ShownOK
<1> QED BY <1>1, <1>2, <1>3, <1>4, <1>7 DEF ReloadKind

(* Every step is one of these. *)
StepKinds ==
  \/ \E r \in Requests : \/ ApiKind(r) \/ FindKind(r) \/ WriteKind(r) \/ CutKind(r) \/ AnswerKind(r)
                         \/ SaveKind(r)
  \/ EditKind
  \/ \E tab \in DOMAIN Tabs : OpenKind(tab)
  \/ \E q \in Queries : ReadKind(q) \/ ShowKind(q)
  \/ CrashKind \/ ReloadKind

LEMMA FormStep ==
  ASSUME FormInv, [Next]_vars
  PROVE  FormInv' /\ (StepKinds \/ UNCHANGED vars)
<1>1. CASE UNCHANGED vars
  <2>1. UNCHANGED <<row, wanted, req, acts, page, cache, fetch>>
    BY <1>1 DEF vars, dbVars, pageVars
  <2> QED BY <1>1, <2>1 DEF FormInv, Types, RequestsOK, ShownOK
<1>2. ASSUME NEW r \in Requests, NEW f, Use(r, f) PROVE FormInv' /\ StepKinds
  <2>1. Mounted /\ f \in Tabs[page.tab]
    BY <1>2 DEF Use
  <2>2. CASE Save(r, f)
    <3>1. FormInv' /\ SaveKind(r)
      BY <2>1, <2>2, SaveStep
    <3> QED BY <3>1 DEF StepKinds
  <2>3. CASE \E c \in Columns[f] : Edit(c)
    <3>1. FormInv' /\ EditKind
      BY <2>1, <2>3, EditStep
    <3> QED BY <3>1 DEF StepKinds
  <2> QED BY <1>2, <2>2, <2>3 DEF Use
<1>3. ASSUME NEW r \in Requests,
             CallApi(r) \/ FindRow(r) \/ Write(r) \/ CutRequest(r) \/ Answer(r)
      PROVE  FormInv' /\ StepKinds
  <2>1. FormInv' /\ (ApiKind(r) \/ FindKind(r) \/ WriteKind(r) \/ CutKind(r) \/ AnswerKind(r))
    BY <1>3, ApiStep, FindStep, WriteStep, CutStep, AnswerStep
  <2> QED BY <2>1 DEF StepKinds
<1>4. ASSUME NEW tab \in DOMAIN Tabs, OpenTab(tab) PROVE FormInv' /\ StepKinds
  <2>1. FormInv' /\ OpenKind(tab)
    BY <1>4, OpenStep
  <2> QED BY <2>1 DEF StepKinds
<1>5. ASSUME NEW q \in Queries, ReadQuery(q) \/ ShowQuery(q) PROVE FormInv' /\ StepKinds
  <2>1. FormInv' /\ (ReadKind(q) \/ ShowKind(q))
    BY <1>5, ReadStep, ShowStep
  <2> QED BY <2>1 DEF StepKinds
<1>6. CASE OpenDeployment \/ OpenWidget
  BY <1>6, CrashStep DEF StepKinds
<1>7. CASE Reload
  BY <1>7, ReloadStep DEF StepKinds
<1>8. CASE Next
  BY <1>2, <1>3, <1>4, <1>5, <1>6, <1>7, <1>8
     DEF Next, GeneralTab, AiTab, RateLimitTab, WidgetAppearance, EmbedTab, BrandingTab
<1> QED BY <1>1, <1>8

LEMMA FormInvariant == Spec => []FormInv
<1>1. FormInv /\ [Next]_vars => FormInv'
  BY FormStep
<1> QED BY <1>1, FormInit, PTL DEF Spec

(* Forms!TypeOK: the tables, the requests and the pages keep their types,   *)
(* and a form shows the columns it may have edited.                        *)
THEOREM TypeCorrect == Spec => []TypeOK
BY FormInvariant, FormTypeOK, PTL

-----------------------------------------------------------------------------
(* Updates of a JSON column that do not overlap.  While no request has met *)
(* another one, at most one is writing the column, and what it has read is *)
(* what is stored, so that merging loses nothing.                          *)

Met(q, d) == Document(req[q].form) = d /\ req[q].met
Calm(d) == \A q \in Requests : ~Met(q, d)
MergedOf(d) ==
  Calm(d) =>
    /\ \A c \in Columns[d] : row[c] = wanted[c]
    /\ \A q, r \in Requests : Writes(q, d) /\ Writes(r, d) => q = r
    /\ \A r \in Requests : req[r].pc = "write" /\ req[r].form = d =>
         \A c \in Columns[d] : req[r].saw[c] = row[c]
MergedInv == \A d \in Documents : MergedOf(d)

LEMMA FieldsOf ==
  ASSUME NEW d \in Documents
  PROVE  /\ Columns[d] \subseteq AllColumns /\ Document(d) = d
         /\ \A f \in AllForms \cup {"tenant"} : Document(f) = d => FormColumns(f) = Columns[d]
         /\ \A f \in AllForms \cup {"tenant"} : Document(f) # d => FormColumns(f) \cap Columns[d] = {}
         /\ \A f \in AllForms \cup {"tenant"} : f \in Documents /\ Document(f) # d => Columns[f] \cap Columns[d] = {}
<1>1. Columns[d] \subseteq AllColumns /\ Document(d) = d
  BY ColumnTable, DocumentTable
<1>2. ASSUME NEW f \in AllForms \cup {"tenant"}, Document(f) # d
      PROVE  Columns[Document(f)] \cap Columns[d] = {}
  BY <1>2, Disjoint, DocumentTable
<1>3. \A f \in AllForms \cup {"tenant"} : f \in Documents => Document(f) = f
  BY DocumentTable
<1> QED BY <1>1, <1>2, <1>3 DEF FormColumns

(* Nobody starts to write the column, and nothing is written to it. *)
LEMMA MergedKept ==
  ASSUME NEW d \in Documents, MergedOf(d),
         \A q \in Requests : Met(q, d) => Met(q, d)',
         \A c \in Columns[d] : row'[c] = row[c] /\ wanted'[c] = wanted[c],
         \A q \in Requests : Writes(q, d)' =>
           req'[q].pc = req[q].pc /\ req'[q].form = req[q].form /\ req'[q].saw = req[q].saw
  PROVE  MergedOf(d)'
<1> SUFFICES ASSUME Calm(d)' PROVE
      /\ \A c \in Columns[d] : row'[c] = wanted'[c]
      /\ \A q, r \in Requests : Writes(q, d)' /\ Writes(r, d)' => q = r
      /\ \A r \in Requests : req'[r].pc = "write" /\ req'[r].form = d =>
           \A c \in Columns[d] : req'[r].saw[c] = row'[c]
  BY DEF MergedOf
<1>1. Calm(d)
  BY DEF Calm
<1>2. \A q \in Requests : Writes(q, d)' => Writes(q, d)
  BY DEF Writes
<1>3. \A r \in Requests : req'[r].pc = "write" /\ req'[r].form = d =>
        req[r].pc = "write" /\ req[r].form = d /\ req'[r].saw = req[r].saw
  BY FieldsOf DEF Writes, Busy
<1> QED BY <1>1, <1>2, <1>3 DEF MergedOf

LEMMA MergedInit == Init => MergedInv
<1> SUFFICES ASSUME Init, NEW d \in Documents PROVE MergedOf(d)
  BY DEF MergedInv
<1>1. \A r \in Requests : req[r].pc = "idle"
  BY DEF Init, NoRequest
<1>2. \A c \in Columns[d] : row[c] = wanted[c]
  BY FieldsOf DEF Init
<1> QED BY <1>1, <1>2 DEF MergedOf, Writes, Busy

LEMMA MergedApi ==
  ASSUME FormInv, FormInv', NEW d \in Documents, MergedOf(d), NEW r \in Requests, ApiKind(r)
  PROVE  MergedOf(d)'
<1>1. PICK f \in AllForms \cup {"tenant"}, body \in Partial, first \in {"find", "write"} :
        /\ Started(r, f, body, first, DOMAIN body, FALSE, "client")
        /\ UNCHANGED <<row, wanted, page, cache, fetch>>
  BY DEF ApiKind
<1>2. /\ req[r].pc = "idle" /\ req'[r].pc = first /\ req'[r].form = f /\ req'[r].saw = Unloaded
      /\ Document(f) = d /\ ~req'[r].met => \A q \in Requests : ~Writes(q, d)
      /\ \A q \in Requests \ {r} : Kept(q)
  BY <1>1 DEF Started
<1>3. ~req[r].met
  BY <1>1 DEF Started
<1>4. \A q \in Requests : Met(q, d) => Met(q, d)'
  BY <1>2, <1>3 DEF Kept, Met
<1>5. CASE Document(f) # d
  <2>1. \A q \in Requests : Writes(q, d)' =>
          req'[q].pc = req[q].pc /\ req'[q].form = req[q].form /\ req'[q].saw = req[q].saw
    BY <1>2, <1>5 DEF Kept, Writes
  <2> QED BY <1>1, <1>4, <2>1, MergedKept
<1>6. CASE Document(f) = d
  <2> SUFFICES ASSUME Calm(d)' PROVE
        /\ \A c \in Columns[d] : row'[c] = wanted'[c]
        /\ \A p, q \in Requests : Writes(p, d)' /\ Writes(q, d)' => p = q
        /\ \A q \in Requests : req'[q].pc = "write" /\ req'[q].form = d =>
             \A c \in Columns[d] : req'[q].saw[c] = row'[c]
    BY DEF MergedOf
  <2>1. Calm(d)
    BY <1>4 DEF Calm
  <2>2. \A q \in Requests : ~Writes(q, d)
    BY <1>2, <1>6 DEF Calm, Met
  <2>3. \A q \in Requests \ {r} : ~Writes(q, d)'
    BY <1>2, <2>2 DEF Kept, Writes
  <2>4. ~(req'[r].pc = "write" /\ req'[r].form = d)
    <3>1. RequestOK(req'[r])
      BY DEF FormInv, RequestsOK
    <3>2. DOMAIN Unloaded # Columns[d]
      BY UnloadedPartial, FormTable, DocumentTable
    <3> QED BY <1>2, <3>1, <3>2 DEF RequestOK
  <2>5. \A q \in Requests : ~(req'[q].pc = "write" /\ req'[q].form = d)
    BY <2>3, <2>4, FieldsOf DEF Writes, Busy
  <2>6. \A c \in Columns[d] : row'[c] = wanted'[c]
    BY <1>1, <2>1 DEF MergedOf
  <2> QED BY <2>3, <2>5, <2>6
<1> QED BY <1>5, <1>6

LEMMA MergedFind ==
  ASSUME FormInv, FormInv', NEW d \in Documents, MergedOf(d), NEW r \in Requests, FindKind(r)
  PROVE  MergedOf(d)'
<1> SUFFICES ASSUME Calm(d)' PROVE
      /\ \A c \in Columns[d] : row'[c] = wanted'[c]
      /\ \A p, q \in Requests : Writes(p, d)' /\ Writes(q, d)' => p = q
      /\ \A q \in Requests : req'[q].pc = "write" /\ req'[q].form = d =>
           \A c \in Columns[d] : req'[q].saw[c] = row'[c]
  BY DEF MergedOf
<1>1. Calm(d)
  BY DEF Calm, Met, FindKind, Kept
<1>2. \A q \in Requests : Writes(q, d)' => Writes(q, d)
  BY DEF FindKind, Kept, Writes, Busy
<1>3. row' = row /\ wanted' = wanted
  BY DEF FindKind
<1>4. \A q \in Requests : req'[q].pc = "write" /\ req'[q].form = d =>
        \A c \in Columns[d] : req'[q].saw[c] = row[c]
  <2>1. req'[r].form = d => \A c \in Columns[d] : req'[r].saw[c] = row[c]
    BY DEF FindKind
  <2>2. \A q \in Requests \ {r} : req'[q].pc = req[q].pc /\ req'[q].form = req[q].form /\ req'[q].saw = req[q].saw
    BY DEF FindKind, Kept
  <2> QED BY <1>1, <2>1, <2>2 DEF MergedOf
<1> QED BY <1>1, <1>2, <1>3, <1>4 DEF MergedOf

LEMMA MergedWrite ==
  ASSUME FormInv, FormInv', NEW d \in Documents, MergedOf(d), NEW r \in Requests, WriteKind(r)
  PROVE  MergedOf(d)'
<1>1. req[r] \in ReqRecords /\ RequestOK(req[r]) /\ req[r].pc = "write"
  BY DEF FormInv, Types, RequestsOK, WriteKind
<1>2. /\ req[r].form \in AllForms \cup {"tenant"} /\ DOMAIN req[r].body \subseteq FormColumns(req[r].form)
      /\ Document(req[r].form) = d => req[r].edited = DOMAIN req[r].body
      /\ req'[r].form = req[r].form
  BY <1>1 DEF WriteKind, ReqRecords, RequestOK, Busy
<1>3. /\ req'[r].pc = "ok" /\ req'[r].met = req[r].met
      /\ \A q \in Requests \ {r} : Kept(q)
      /\ \A c \in AllColumns :
           row'[c] = IF c \in DOMAIN req[r].body THEN req[r].body[c]
                     ELSE IF c \in DOMAIN req[r].saw THEN req[r].saw[c] ELSE row[c]
      /\ \A c \in AllColumns :
           wanted'[c] = IF c \in DOMAIN req[r].body /\ c \in req[r].edited THEN req[r].body[c] ELSE wanted[c]
  BY DEF WriteKind
<1>4. \A q \in Requests : Met(q, d) => Met(q, d)'
  BY <1>2, <1>3 DEF Kept, Met
<1>5. CASE Document(req[r].form) # d
  <2>1. DOMAIN req[r].saw \cap Columns[d] = {}
    BY <1>1, <1>2, <1>5, FieldsOf, UnloadedPartial DEF RequestOK
  <2>2. DOMAIN req[r].body \cap Columns[d] = {}
    BY <1>2, <1>5, FieldsOf
  <2>3. \A c \in Columns[d] : row'[c] = row[c] /\ wanted'[c] = wanted[c]
    BY <1>3, <2>1, <2>2, FieldsOf
  <2>4. \A q \in Requests : Writes(q, d)' =>
          req'[q].pc = req[q].pc /\ req'[q].form = req[q].form /\ req'[q].saw = req[q].saw
    BY <1>3 DEF Kept, Writes, Busy
  <2> QED BY <1>4, <2>3, <2>4, MergedKept
<1>6. CASE Document(req[r].form) = d
  <2> SUFFICES ASSUME Calm(d)' PROVE
        /\ \A c \in Columns[d] : row'[c] = wanted'[c]
        /\ \A p, q \in Requests : Writes(p, d)' /\ Writes(q, d)' => p = q
        /\ \A q \in Requests : req'[q].pc = "write" /\ req'[q].form = d =>
             \A c \in Columns[d] : req'[q].saw[c] = row'[c]
    BY DEF MergedOf
  <2>1. Calm(d)
    BY <1>4 DEF Calm
  <2>2. Writes(r, d)
    BY <1>1, <1>6 DEF Writes, Busy
  <2>3. \A q \in Requests : ~Writes(q, d)'
    <3>1. ~Writes(r, d)'
      BY <1>3 DEF Writes, Busy
    <3>2. \A q \in Requests \ {r} : ~Writes(q, d)
      BY <2>1, <2>2 DEF MergedOf
    <3>3. \A q \in Requests \ {r} : ~Writes(q, d)'
      BY <1>3, <3>2 DEF Kept, Writes
    <3> QED BY <3>1, <3>3
  <2>4. \A c \in Columns[d] : row[c] = wanted[c]
    BY <2>1 DEF MergedOf
  <2>5. \A c \in DOMAIN req[r].saw : c \in Columns[d] => req[r].saw[c] = row[c]
    <3>1. CASE req[r].form = d
      BY <1>1, <2>1, <3>1 DEF MergedOf
    <3>2. CASE req[r].form # d
      <4>1. req[r].form \notin Documents
        BY <1>2, <1>6, <3>2, DocumentTable
      <4> QED BY <1>1, <4>1, UnloadedPartial DEF RequestOK
    <3> QED BY <3>1, <3>2
  <2>6. \A c \in Columns[d] : row'[c] = wanted'[c]
    BY <1>2, <1>3, <1>6, <2>4, <2>5, FieldsOf
  <2>7. \A q \in Requests : ~(req'[q].pc = "write" /\ req'[q].form = d)
    BY <2>3, FieldsOf DEF Writes, Busy
  <2> QED BY <2>3, <2>6, <2>7
<1> QED BY <1>5, <1>6

LEMMA MergedStep ==
  ASSUME FormInv, FormInv', NEW d \in Documents, MergedOf(d), StepKinds \/ UNCHANGED vars
  PROVE  MergedOf(d)'
<1>1. ASSUME NEW r \in Requests, CutKind(r) PROVE MergedOf(d)'
  <2>1. \A q \in Requests : /\ Met(q, d) => Met(q, d)'
                            /\ Writes(q, d)' =>
                                 /\ req'[q].pc = req[q].pc /\ req'[q].form = req[q].form
                                 /\ req'[q].saw = req[q].saw
    BY <1>1 DEF CutKind, Kept, Met, Writes, Busy
  <2> QED BY <1>1, <2>1, MergedKept DEF CutKind
<1>2. ASSUME NEW r \in Requests, AnswerKind(r) PROVE MergedOf(d)'
  <2>1. \A q \in Requests : /\ Met(q, d) => Met(q, d)'
                            /\ Writes(q, d)' =>
                                 /\ req'[q].pc = req[q].pc /\ req'[q].form = req[q].form
                                 /\ req'[q].saw = req[q].saw
    <3>1. ~req[r].met
      BY <1>2 DEF AnswerKind, FormInv, RequestsOK, RequestOK
    <3> QED BY <1>2, <3>1 DEF AnswerKind, Kept, Met, Writes, Busy
  <2> QED BY <1>2, <2>1, MergedKept DEF AnswerKind
<1>3. ASSUME NEW r \in Requests, SaveKind(r) PROVE MergedOf(d)'
  <2>1. PICK f \in AllForms, body \in Partial, first \in {"find", "refused"} :
          /\ first = "find" <=> f \in ChatbotForms
          /\ Started(r, f, body, first, page.edited \cap Columns[f], page.late, "page")
          /\ UNCHANGED <<row, wanted>>
    BY <1>3 DEF SaveKind
  <2>2. /\ req[r].pc = "idle" /\ req'[r].pc = first /\ req'[r].form = f
        /\ \A q \in Requests \ {r} : Kept(q)
    BY <2>1 DEF Started
  <2>3. ~req[r].met
    BY <2>1 DEF Started
  <2>4. ~Writes(r, d)'
    <3>1. CASE first = "refused"
      BY <2>2, <3>1 DEF Writes, Busy
    <3>2. CASE f \in ChatbotForms
      BY <2>2, <3>2, DocumentTable DEF Writes
    <3> QED BY <2>1, <3>1, <3>2
  <2>5. \A q \in Requests : /\ Met(q, d) => Met(q, d)'
                            /\ Writes(q, d)' =>
                                 /\ req'[q].pc = req[q].pc /\ req'[q].form = req[q].form
                                 /\ req'[q].saw = req[q].saw
    BY <2>2, <2>3, <2>4 DEF Kept, Met, Writes
  <2> QED BY <2>1, <2>5, MergedKept
<1>4. CASE req' = req /\ row' = row /\ wanted' = wanted
  BY <1>4, MergedKept DEF Met, Writes
<1>5. CASE ReloadKind
  <2>1. \A q \in Requests : /\ Met(q, d) => Met(q, d)'
                            /\ Writes(q, d)' =>
                                 /\ req'[q].pc = req[q].pc /\ req'[q].form = req[q].form
                                 /\ req'[q].saw = req[q].saw
    BY <1>5 DEF ReloadKind, Met, Writes
  <2> QED BY <1>5, <2>1, MergedKept DEF ReloadKind
<1>6. EditKind \/ CrashKind \/ UNCHANGED vars => req' = req /\ row' = row /\ wanted' = wanted
  BY DEF EditKind, CrashKind, vars, dbVars
<1>7. \A tab \in DOMAIN Tabs : OpenKind(tab) => req' = req /\ row' = row /\ wanted' = wanted
  BY DEF OpenKind
<1>8. \A q \in Queries : ReadKind(q) \/ ShowKind(q) => req' = req /\ row' = row /\ wanted' = wanted
  BY DEF ReadKind, ShowKind
<1> QED BY <1>1, <1>2, <1>3, <1>4, <1>5, <1>6, <1>7, <1>8, MergedApi, MergedFind, MergedWrite DEF StepKinds

(* Forms!FieldsMerged: every field of a JSON column has the value that was  *)
(* saved last for it, as long as no two updates of the column overlap,     *)
(* whatever a replacing PATCH /tenant leaves out.                          *)
THEOREM MergedCorrect == Spec => []FieldsMerged
<1>1. MergedInv /\ FormInv /\ FormInv' /\ [Next]_vars => MergedInv'
  BY FormStep, MergedStep DEF MergedInv
<1>2. MergedInv => FieldsMerged
  BY DEF MergedInv, MergedOf, FieldsMerged, Calm, Met
<1> QED BY <1>1, <1>2, MergedInit, FormInvariant, PTL DEF Spec

-----------------------------------------------------------------------------
(* The chatbot page saves one form of the chatbot at a time: it awaits the *)
(* answer on every tab that it can be left for.                            *)

OwnSave(r) == req[r].by = "page" /\ req[r].form \in ChatbotForms
OneSave ==
  \A r \in Requests : OwnSave(r) =>
    /\ page.tab \in ChatbotForms \cup {"embed", "crashed"}
    /\ page.tab # "crashed" => page.awaits["chatbot"] = r
    /\ \A s \in Requests : OwnSave(s) => s = r

LEMMA SavingOwn ==
  ASSUME FormInv
  PROVE  Saving("chatbot") <=> \E r \in Requests : OwnSave(r)
<1>1. ASSUME NEW r \in Requests, req[r].by = "page" PROVE Query(req[r].form) = "chatbot" <=> OwnSave(r)
  <2>1. req[r].form \in AllForms
    BY <1>1 DEF FormInv, RequestsOK, RequestOK
  <2> QED BY <1>1, <2>1, QueryTable, FormTable DEF OwnSave
<1> QED BY <1>1 DEF Saving, OwnSave

LEMMA OneSaveInit == Init => OneSave
<1> SUFFICES ASSUME Init PROVE OneSave
  OBVIOUS
<1>1. \A r \in Requests : req[r].by = None
  BY DEF Init, NoRequest
<1> QED BY <1>1, NoneAssumption DEF OneSave, OwnSave

(* A save goes on, on the same page or another one that awaits it. *)
LEMMA OneSaveKept ==
  ASSUME OneSave,
         \A r \in Requests : OwnSave(r)' => OwnSave(r),
         (\E r \in Requests : OwnSave(r)') =>
           \/ page'.tab = "crashed"
           \/ /\ page'.tab \in ChatbotForms \cup {"embed", "crashed"}
              /\ page.tab # "crashed" /\ page'.awaits["chatbot"] = page.awaits["chatbot"]
  PROVE  OneSave'
BY DEF OneSave

LEMMA OneSaveStep ==
  ASSUME FormInv, FormInv', OneSave, StepKinds \/ UNCHANGED vars
  PROVE  OneSave'
<1>0. ASSUME NEW r \in Requests, OwnSave(r)
      PROVE  page.tab \in ChatbotForms \cup {"embed", "crashed"} /\ page.tab \in BotPage \cup {"crashed"}
  BY <1>0 DEF OneSave, BotPage
<1>k. ASSUME NEW r \in Requests, Kept(r) PROVE OwnSave(r)' <=> OwnSave(r)
  BY <1>k DEF Kept, OwnSave
<1>p. page' = page /\ (\A r \in Requests : OwnSave(r)' => OwnSave(r)) => OneSave'
  BY DEF OneSave
<1>1. ASSUME NEW r \in Requests, ApiKind(r) PROVE OneSave'
  <2>1. /\ \A q \in Requests \ {r} : Kept(q)
        /\ req'[r].by = "client" /\ page' = page
    BY <1>1 DEF ApiKind, Started
  <2>2. \A q \in Requests : OwnSave(q)' => OwnSave(q)
    BY <1>k, <2>1 DEF OwnSave
  <2> QED BY <1>p, <2>1, <2>2
<1>2. ASSUME NEW r \in Requests, FindKind(r) \/ WriteKind(r) \/ CutKind(r) PROVE OneSave'
  <2>1. /\ \A q \in Requests \ {r} : Kept(q)
        /\ req'[r].by = req[r].by /\ req'[r].form = req[r].form /\ page' = page
    BY <1>2 DEF FindKind, WriteKind, CutKind
  <2>2. \A q \in Requests : OwnSave(q)' => OwnSave(q)
    BY <1>k, <2>1 DEF OwnSave
  <2> QED BY <1>p, <2>1, <2>2
<1>3. ASSUME NEW r \in Requests, AnswerKind(r) PROVE OneSave'
  <2>1. /\ \A q \in Requests \ {r} : Kept(q)
        /\ req'[r].by = "answered" /\ page'.tab = page.tab
        /\ page'.awaits["chatbot"] = IF page.awaits["chatbot"] = r THEN None ELSE page.awaits["chatbot"]
    BY <1>3 DEF AnswerKind, PageKept, Mutations
  <2>2. ~OwnSave(r)'
    BY <2>1 DEF OwnSave
  <2>3. \A q \in Requests : OwnSave(q)' => q # r /\ OwnSave(q)
    BY <1>k, <2>1, <2>2
  <2> QED BY <2>1, <2>3 DEF OneSave
<1>4. ASSUME NEW r \in Requests, SaveKind(r) PROVE OneSave'
  <2>1. PICK f \in AllForms, body \in Partial, first \in {"find", "refused"} :
          /\ f \in Tabs[page.tab] /\ page.tab \in DOMAIN Tabs
          /\ Started(r, f, body, first, page.edited \cap Columns[f], page.late, "page")
          /\ page.awaits[Mutation(f)] = None
          /\ PageKept
          /\ \A m \in Mutations : page'.awaits[m] = IF m = Mutation(f) THEN r ELSE page.awaits[m]
    BY <1>4 DEF SaveKind
  <2>2. /\ \A q \in Requests \ {r} : Kept(q)
        /\ req'[r].by = "page" /\ req'[r].form = f /\ page'.tab = page.tab /\ page.tab # "crashed"
    BY <2>1, TabTable DEF Started, PageKept
  <2>3. CASE f \in ChatbotForms
    <3>1. page.awaits["chatbot"] = None /\ page'.awaits["chatbot"] = r
      BY <2>1, <2>3, QueryTable DEF Mutations
    <3>2. \A q \in Requests : ~OwnSave(q)
      BY <2>2, <3>1, NoneAssumption DEF OneSave
    <3>3. \A q \in Requests \ {r} : ~OwnSave(q)'
      BY <1>k, <2>2, <3>2
    <3>4. page.tab \in ChatbotForms
      BY <2>1, <2>3, TabTable, FormTable
    <3> QED BY <2>2, <3>1, <3>3, <3>4 DEF OneSave
  <2>4. CASE f \notin ChatbotForms
    <3>1. page'.awaits["chatbot"] = page.awaits["chatbot"]
      <4>1. Mutation(f) # "chatbot"
        BY <2>4, FormTable DEF Mutation
      <4> QED BY <2>1, <4>1 DEF Mutations
    <3>2. ~OwnSave(r)'
      BY <2>2, <2>4 DEF OwnSave
    <3>3. \A q \in Requests : OwnSave(q)' => OwnSave(q)
      BY <1>k, <2>2, <3>2
    <3> QED BY <2>2, <3>1, <3>3 DEF OneSave
  <2> QED BY <2>3, <2>4
<1>5. CASE EditKind
  <2>1. page'.tab = page.tab /\ page'.awaits = page.awaits /\ req' = req
    BY <1>5 DEF EditKind
  <2> QED BY <2>1 DEF OneSave, OwnSave
<1>6. ASSUME NEW tab \in DOMAIN Tabs, OpenKind(tab) PROVE OneSave'
  <2>1. /\ req' = req /\ page.tab # "crashed" /\ page'.tab = tab
        /\ tab = "branding" => page.tab = "away"
        /\ {page.tab, tab} \subseteq BotPage => page'.awaits["chatbot"] = page.awaits["chatbot"]
    BY <1>6 DEF OpenKind
  <2>2. \A q \in Requests : OwnSave(q)' <=> OwnSave(q)
    BY <2>1 DEF OwnSave
  <2>3. ASSUME NEW q \in Requests, OwnSave(q)
        PROVE  /\ tab \in ChatbotForms \cup {"embed"}
               /\ page'.awaits["chatbot"] = page.awaits["chatbot"]
    <3>1. page.tab \in BotPage /\ page.tab # "away"
      BY <1>0, <2>1, <2>3, FormTable DEF BotPage
    <3>2. tab \in BotPage
      BY <2>1, <3>1, TabTable, FormTable DEF BotPage
    <3> QED BY <2>1, <3>1, <3>2 DEF BotPage
  <2> QED BY <2>1, <2>2, <2>3, OneSaveKept
<1>7. ASSUME NEW q \in Queries, ReadKind(q) PROVE OneSave'
  BY <1>7 DEF ReadKind, OneSave, OwnSave
<1>8. ASSUME NEW q \in Queries, ShowKind(q) PROVE OneSave'
  <2>1. /\ req' = req /\ page'.tab = page.tab
        /\ page' = page \/ (page.tab \in DOMAIN Tabs
                            /\ (page.tab \in BotPage => page'.awaits["chatbot"] = page.awaits["chatbot"]))
    BY <1>8 DEF ShowKind
  <2>2. \A r \in Requests : OwnSave(r)' <=> OwnSave(r)
    BY <2>1 DEF OwnSave
  <2>3. CASE page' = page
    BY <1>p, <2>2, <2>3
  <2>4. CASE page.tab \in DOMAIN Tabs
             /\ (page.tab \in BotPage => page'.awaits["chatbot"] = page.awaits["chatbot"])
    <3>1. page.tab # "crashed"
      BY <2>4, TabTable
    <3>2. (\E r \in Requests : OwnSave(r)') =>
            /\ page'.tab \in ChatbotForms \cup {"embed", "crashed"}
            /\ page'.awaits["chatbot"] = page.awaits["chatbot"]
      BY <1>0, <2>1, <2>2, <2>4, <3>1
    <3> QED BY <2>2, <3>1, <3>2, OneSaveKept
  <2> QED BY <2>1, <2>3, <2>4
<1>9. CASE CrashKind
  <2>1. req' = req /\ page'.tab = "crashed"
    BY <1>9 DEF CrashKind
  <2>2. \A r \in Requests : OwnSave(r)' <=> OwnSave(r)
    BY <2>1 DEF OwnSave
  <2> QED BY <2>1, <2>2, OneSaveKept
<1>10. CASE ReloadKind
  <2>1. \A r \in Requests : req'[r].by # "page"
    BY <1>10 DEF ReloadKind
  <2> QED BY <2>1 DEF OneSave, OwnSave
<1>11. CASE UNCHANGED vars
  BY <1>11 DEF vars, dbVars, pageVars, OneSave, OwnSave
<1> QED BY <1>1, <1>2, <1>3, <1>4, <1>5, <1>6, <1>7, <1>8, <1>9, <1>10, <1>11 DEF StepKinds

LEMMA OneSaveInvariant == Spec => []OneSave
<1>1. OneSave /\ FormInv /\ FormInv' /\ [Next]_vars => OneSave'
  BY FormStep, OneSaveStep
<1> QED BY <1>1, OneSaveInit, FormInvariant, PTL DEF Spec

-----------------------------------------------------------------------------
(* As long as nobody disturbs the chatbot page, what it holds is what is   *)
(* stored: the columns a save sends without an edit, the columns a form    *)
(* shows without one, what is cached and what an answer carries, each when *)
(* no save is under way that will overtake it.                             *)

Quiet == ~fetch["chatbot"].missed /\ \A r \in Requests : ~OwnSave(r)

RowWanted == \A c \in ChatbotColumns : row[c] = wanted[c]
BodyFresh == \A r \in Requests : OwnSave(r) /\ req[r].pc \in Busy =>
               \A c \in DOMAIN req[r].body \ req[r].edited : req[r].body[c] = row[c]
EditsKept == \A r \in Requests :
               OwnSave(r) /\ req[r].pc \in Busy /\ page.tab \in ChatbotForms /\ ~page.late =>
                 DOMAIN page.shown \cap req[r].edited \subseteq page.edited
ShownFresh == page.tab \in ChatbotForms /\ ~page.late =>
                \A c \in DOMAIN page.shown \ page.edited : page.shown[c] = row[c]
CacheFresh == Quiet /\ fetch["chatbot"].at = "idle" =>
                \A c \in DOMAIN cache["chatbot"] : cache["chatbot"][c] = row[c]
RowsFresh == Quiet /\ fetch["chatbot"].at = "answered" =>
               \A c \in DOMAIN fetch["chatbot"].rows : fetch["chatbot"].rows[c] = row[c]
OwnFacts == RowWanted /\ BodyFresh /\ EditsKept /\ ShownFresh /\ CacheFresh /\ RowsFresh
OwnInv == Undisturbed => OwnFacts

LEMMA OwnDomains ==
  ASSUME FormInv
  PROVE  /\ \A r \in Requests : OwnSave(r) /\ req[r].pc \in Busy =>
              DOMAIN req[r].body \subseteq ChatbotColumns /\ req[r].saw = Unloaded
         /\ page.tab \in ChatbotForms => DOMAIN page.shown \subseteq ChatbotColumns
         /\ DOMAIN cache["chatbot"] \subseteq ChatbotColumns
         /\ fetch["chatbot"].at = "answered" => DOMAIN fetch["chatbot"].rows \subseteq ChatbotColumns
         /\ ChatbotColumns \subseteq AllColumns /\ "chatbot" \in Queries
<1>1. "chatbot" \in Queries /\ QueryColumns("chatbot") = ChatbotColumns /\ ChatbotColumns \subseteq AllColumns
  BY QueryTable, ColumnTable DEF Queries
<1>2. /\ CacheOK("chatbot", cache["chatbot"]) /\ FetchOK("chatbot", fetch["chatbot"])
      /\ ShownOK(page) /\ RequestsOK
  BY <1>1 DEF FormInv
<1>3. DOMAIN cache["chatbot"] \subseteq ChatbotColumns
  BY <1>1, <1>2, UnloadedPartial DEF CacheOK
<1>4. fetch["chatbot"].at = "answered" => DOMAIN fetch["chatbot"].rows \subseteq ChatbotColumns
  BY <1>1, <1>2 DEF FetchOK
<1>5. page.tab \in ChatbotForms => DOMAIN page.shown \subseteq ChatbotColumns
  BY <1>2, TabTable, ColumnTable, UnloadedPartial DEF ShownOK
<1>6. ASSUME NEW r \in Requests, OwnSave(r), req[r].pc \in Busy
      PROVE  DOMAIN req[r].body \subseteq ChatbotColumns /\ req[r].saw = Unloaded
  <2>1. DOMAIN req[r].body \subseteq FormColumns(req[r].form)
    BY <1>2, <1>6 DEF RequestsOK, RequestOK
  <2>2. req[r].form \in ChatbotForms /\ req[r].form \notin Documents /\ Document(req[r].form) = req[r].form
    BY <1>6, DocumentTable DEF OwnSave
  <2>3. req[r].saw = Unloaded
    BY <1>2, <2>2 DEF RequestsOK, RequestOK
  <2> QED BY <2>1, <2>2, <2>3, ColumnTable DEF FormColumns
<1> QED BY <1>1, <1>3, <1>4, <1>5, <1>6

LEMMA OwnInit == Init => OwnInv
<1> SUFFICES ASSUME Init PROVE OwnFacts
  BY DEF OwnInv
<1>1. \A r \in Requests : ~OwnSave(r)
  BY NoneAssumption DEF Init, NoRequest, OwnSave
<1>2. RowWanted
  BY ColumnTable DEF Init, RowWanted
<1>3. page.shown = Unloaded
  BY DEF Init, NoPage
<1>4. cache["chatbot"] = Unloaded /\ fetch["chatbot"].at = "stale"
  BY DEF Init, Queries, AtRest
<1> QED BY <1>1, <1>2, <1>3, <1>4, UnloadedPartial DEF OwnFacts, BodyFresh, EditsKept, ShownFresh,
        CacheFresh, RowsFresh

LEMMA UndisturbedKept ==
  ASSUME FormInv, StepKinds \/ UNCHANGED vars, Undisturbed'
  PROVE  Undisturbed
<1> DEFINE Calmly(q) == /\ req[q].pc # "cut" /\ ~req[q].late /\ req[q].by # "orphan"
                        /\ ~(req[q].by = "client" /\ req[q].form \in ChatbotForms)
<1> SUFFICES \A q \in Requests : Calmly(q)
  BY DEF Undisturbed, At
<1>1. \A q \in Requests : /\ req'[q].pc # "cut" /\ ~req'[q].late /\ req'[q].by # "orphan"
                          /\ ~(req'[q].by = "client" /\ req'[q].form \in ChatbotForms)
  BY DEF Undisturbed, At
<1>k. ASSUME NEW q \in Requests, Kept(q) PROVE Calmly(q)
  BY <1>1, <1>k DEF Kept
<1>i. ASSUME NEW q \in Requests, req[q].pc = "idle" PROVE Calmly(q)
  <2>1. req[q] = NoRequest
    BY <1>i DEF FormInv, RequestsOK, RequestOK
  <2> QED BY <2>1, NoneAssumption DEF NoRequest
<1> DEFINE R == \A q \in Requests : Calmly(q)
<1>2. ASSUME NEW r \in Requests, ApiKind(r) \/ SaveKind(r) PROVE R
  <2>1. req[r].pc = "idle" /\ \A q \in Requests \ {r} : Kept(q)
    BY <1>2 DEF ApiKind, SaveKind, Started
  <2> QED BY <1>i, <1>k, <2>1
<1>3. ASSUME NEW r \in Requests, FindKind(r) PROVE R
  <2>1. /\ req[r].pc = "find" /\ req'[r].late = req[r].late /\ req'[r].by = req[r].by
        /\ req'[r].form = req[r].form /\ \A q \in Requests \ {r} : Kept(q)
    BY <1>3 DEF FindKind
  <2>2. Calmly(r)
    BY <1>1, <2>1
  <2> QED BY <1>k, <2>1, <2>2
<1>4. ASSUME NEW r \in Requests, WriteKind(r) PROVE R
  <2>1. /\ req[r].pc = "write" /\ req'[r].late = req[r].late /\ req'[r].by = req[r].by
        /\ req'[r].form = req[r].form /\ \A q \in Requests \ {r} : Kept(q)
    BY <1>4 DEF WriteKind
  <2>2. Calmly(r)
    BY <1>1, <2>1
  <2> QED BY <1>k, <2>1, <2>2
<1>5. ASSUME NEW r \in Requests, CutKind(r) PROVE R
  BY <1>1, <1>5 DEF CutKind
<1>6. ASSUME NEW r \in Requests, AnswerKind(r) PROVE R
  <2>1. /\ req[r].by = "page" /\ req'[r].pc = req[r].pc /\ req'[r].late = req[r].late
        /\ \A q \in Requests \ {r} : Kept(q)
    BY <1>6 DEF AnswerKind
  <2>2. Calmly(r)
    BY <1>1, <2>1
  <2> QED BY <1>k, <2>1, <2>2
<1>7. CASE req' = req
  BY <1>1, <1>7
<1>8. CASE ReloadKind
  BY <1>1, <1>8 DEF ReloadKind
<1>9. EditKind \/ CrashKind \/ UNCHANGED vars => req' = req
  BY DEF EditKind, CrashKind, vars
<1>10. \A tab \in DOMAIN Tabs : OpenKind(tab) => req' = req
  BY DEF OpenKind
<1>11. \A q \in Queries : ReadKind(q) \/ ShowKind(q) => req' = req
  BY DEF ReadKind, ShowKind
<1> HIDE DEF Calmly
<1> QED BY <1>2, <1>3, <1>4, <1>5, <1>6, <1>7, <1>8, <1>9, <1>10, <1>11 DEF StepKinds

(* The page stays as it is and no save of its own writes. *)
LEMMA OwnKept ==
  ASSUME FormInv, OwnFacts,
         \A c \in ChatbotColumns : row'[c] = row[c] /\ wanted'[c] = wanted[c],
         page' = page, cache' = cache, fetch' = fetch,
         \A r \in Requests : /\ OwnSave(r)' <=> OwnSave(r)
                             /\ OwnSave(r)' /\ req'[r].pc \in Busy =>
                                  /\ req[r].pc \in Busy /\ req'[r].body = req[r].body
                                  /\ req'[r].edited = req[r].edited
  PROVE  OwnFacts'
<1>1. RowWanted'
  BY DEF OwnFacts, RowWanted
<1>2. BodyFresh'
  BY OwnDomains DEF OwnFacts, BodyFresh
<1>3. EditsKept'
  BY DEF OwnFacts, EditsKept
<1>4. ShownFresh'
  BY OwnDomains DEF OwnFacts, ShownFresh
<1>5. Quiet' <=> Quiet
  BY DEF Quiet
<1>6. CacheFresh'
  BY <1>5, OwnDomains DEF OwnFacts, CacheFresh
<1>7. RowsFresh'
  BY <1>5, OwnDomains DEF OwnFacts, RowsFresh
<1> QED BY <1>1, <1>2, <1>3, <1>4, <1>6, <1>7 DEF OwnFacts

LEMMA KeptOwn ==
  ASSUME NEW q \in Requests, Kept(q)
  PROVE  /\ OwnSave(q)' <=> OwnSave(q)
         /\ req'[q].pc = req[q].pc /\ req'[q].body = req[q].body /\ req'[q].edited = req[q].edited
BY DEF Kept, OwnSave

LEMMA OwnApi ==
  ASSUME FormInv, OwnFacts, Undisturbed', NEW r \in Requests, ApiKind(r)
  PROVE  OwnFacts'
<1>1. /\ \A q \in Requests \ {r} : Kept(q)
      /\ req[r].pc = "idle" /\ req'[r].by = "client"
      /\ row' = row /\ wanted' = wanted /\ page' = page /\ cache' = cache /\ fetch' = fetch
  BY DEF ApiKind, Started
<1>2. req[r].by = None
  <2>1. req[r] = NoRequest
    BY <1>1 DEF FormInv, RequestsOK, RequestOK
  <2> QED BY <2>1 DEF NoRequest
<1>3. ~OwnSave(r) /\ ~OwnSave(r)'
  BY <1>1, <1>2, NoneAssumption DEF OwnSave
<1>4. \A q \in Requests : /\ OwnSave(q)' <=> OwnSave(q)
                          /\ OwnSave(q)' /\ req'[q].pc \in Busy =>
                               /\ req[q].pc \in Busy /\ req'[q].body = req[q].body
                               /\ req'[q].edited = req[q].edited
  BY <1>1, <1>3, KeptOwn
<1> QED BY <1>1, <1>4, OwnKept

LEMMA OwnFind ==
  ASSUME FormInv, OwnFacts, Undisturbed', NEW r \in Requests, FindKind(r)
  PROVE  OwnFacts'
<1>1. /\ \A q \in Requests \ {r} : Kept(q)
      /\ req[r].pc = "find" /\ req'[r].form = req[r].form /\ req'[r].by = req[r].by
      /\ req'[r].body = req[r].body /\ req'[r].edited = req[r].edited
      /\ row' = row /\ wanted' = wanted /\ page' = page /\ cache' = cache /\ fetch' = fetch
  BY DEF FindKind
<1>2. OwnSave(r)' <=> OwnSave(r)
  BY <1>1 DEF OwnSave
<1>3. \A q \in Requests : /\ OwnSave(q)' <=> OwnSave(q)
                          /\ OwnSave(q)' /\ req'[q].pc \in Busy =>
                               /\ req[q].pc \in Busy /\ req'[q].body = req[q].body
                               /\ req'[q].edited = req[q].edited
  BY <1>1, <1>2, KeptOwn DEF Busy
<1> QED BY <1>1, <1>3, OwnKept

LEMMA OwnWrite ==
  ASSUME FormInv, OneSave, OwnFacts, Undisturbed', NEW r \in Requests, WriteKind(r)
  PROVE  OwnFacts'
<1>1. /\ \A q \in Requests \ {r} : Kept(q)
      /\ req[r].pc = "write" /\ req'[r].pc = "ok" /\ req'[r].form = req[r].form
      /\ req'[r].by = req[r].by
      /\ page' = page /\ cache' = cache /\ fetch' = fetch
      /\ \A c \in AllColumns :
           row'[c] = IF c \in DOMAIN req[r].body THEN req[r].body[c]
                     ELSE IF c \in DOMAIN req[r].saw THEN req[r].saw[c] ELSE row[c]
      /\ \A c \in AllColumns :
           wanted'[c] = IF c \in DOMAIN req[r].body /\ c \in req[r].edited THEN req[r].body[c] ELSE wanted[c]
  BY DEF WriteKind
<1>2. OwnSave(r)' <=> OwnSave(r)
  BY <1>1 DEF OwnSave
<1>3. req[r] \in ReqRecords /\ RequestOK(req[r])
  BY DEF FormInv, Types, RequestsOK
<1>4. CASE ~OwnSave(r)
  <2>1. req[r].form \notin ChatbotForms /\ req[r].form \in AllForms \cup {"tenant"}
    <3>1. req[r].by \in {"page", "orphan", "client"}
      BY <1>1, <1>3 DEF RequestOK, Busy
    <3>2. req'[r].by # "orphan" /\ ~(req'[r].by = "client" /\ req'[r].form \in ChatbotForms)
      BY DEF Undisturbed
    <3> QED BY <1>1, <1>3, <1>4, <3>1, <3>2 DEF OwnSave, ReqRecords
  <2>2. /\ FormColumns(req[r].form) \cap ChatbotColumns = {}
        /\ \A d \in Documents : Columns[d] \cap ChatbotColumns = {}
    BY <2>1, FormTable, ColumnTable DEF FormColumns, Document, Documents
  <2>3. DOMAIN req[r].body \cap ChatbotColumns = {} /\ DOMAIN req[r].saw \cap ChatbotColumns = {}
    BY <1>1, <1>3, <2>2, UnloadedPartial DEF RequestOK, Busy
  <2>4. \A c \in ChatbotColumns : row'[c] = row[c] /\ wanted'[c] = wanted[c]
    BY <1>1, <2>3, ColumnTable
  <2>5. \A q \in Requests : /\ OwnSave(q)' <=> OwnSave(q)
                            /\ OwnSave(q)' /\ req'[q].pc \in Busy =>
                                 /\ req[q].pc \in Busy /\ req'[q].body = req[q].body
                                 /\ req'[q].edited = req[q].edited
    BY <1>1, <1>2, <1>4, KeptOwn
  <2> QED BY <1>1, <2>4, <2>5, OwnKept
<1>5. CASE OwnSave(r)
  <2>1. DOMAIN req[r].body \subseteq ChatbotColumns /\ req[r].saw = Unloaded
    BY <1>1, <1>5, OwnDomains DEF Busy
  <2>2. \A c \in DOMAIN req[r].body \ req[r].edited : req[r].body[c] = row[c]
    BY <1>1, <1>5 DEF OwnFacts, BodyFresh, Busy
  <2>3. /\ \A c \in ChatbotColumns \cap (DOMAIN req[r].body \cap req[r].edited) :
             row'[c] = req[r].body[c] /\ wanted'[c] = req[r].body[c]
        /\ \A c \in ChatbotColumns \ (DOMAIN req[r].body \cap req[r].edited) :
             row'[c] = row[c] /\ wanted'[c] = wanted[c]
    BY <1>1, <2>1, <2>2, UnloadedPartial, ColumnTable
  <2>4. RowWanted'
    BY <2>3 DEF OwnFacts, RowWanted
  <2>5. ASSUME NEW q \in Requests, OwnSave(q)' PROVE q = r
    <3>1. q # r => OwnSave(q)
      BY <1>1, <2>5, KeptOwn
    <3> QED BY <1>5, <3>1 DEF OneSave
  <2>6. BodyFresh' /\ EditsKept'
    BY <1>1, <2>5 DEF BodyFresh, EditsKept, Busy
  <2>7. ~Quiet'
    BY <1>2, <1>5 DEF Quiet
  <2>8. ShownFresh'
    <3> SUFFICES ASSUME page.tab \in ChatbotForms, ~page.late,
                        NEW c \in DOMAIN page.shown \ page.edited
                 PROVE  page.shown[c] = row'[c]
      BY <1>1 DEF ShownFresh
    <3>1. page.shown[c] = row[c] /\ c \in ChatbotColumns
      BY OwnDomains DEF OwnFacts, ShownFresh
    <3>2. c \notin req[r].edited
      BY <1>1, <1>5 DEF OwnFacts, EditsKept, Busy
    <3> QED BY <2>3, <3>1, <3>2
  <2> QED BY <2>4, <2>6, <2>7, <2>8 DEF OwnFacts, CacheFresh, RowsFresh
<1> QED BY <1>4, <1>5

LEMMA OwnAnswer ==
  ASSUME FormInv, FormInv', OneSave, OwnFacts, Undisturbed', NEW r \in Requests, AnswerKind(r)
  PROVE  OwnFacts'
<1>1. /\ \A q \in Requests \ {r} : Kept(q)
      /\ req[r].by = "page" /\ req'[r].by = "answered" /\ req[r].pc \in {"ok", "refused", "cut"}
      /\ req'[r].pc = req[r].pc
      /\ row' = row /\ wanted' = wanted /\ cache' = cache
      /\ PageKept
      /\ \A q \in Queries : fetch'[q] = fetch[q] \/ Overtaken(q)
      /\ req[r].pc = "ok" => Overtaken(Query(req[r].form))
  BY DEF AnswerKind
<1>2. ~OwnSave(r)'
  BY <1>1 DEF OwnSave
<1>3. \A q \in Requests : OwnSave(q)' => q # r /\ OwnSave(q)
  BY <1>1, <1>2, KeptOwn
<1>4. RowWanted'
  BY <1>1 DEF OwnFacts, RowWanted
<1>5. BodyFresh' /\ EditsKept'
  <2>1. \A q \in Requests : OwnSave(q)' /\ req'[q].pc \in Busy =>
          /\ OwnSave(q) /\ req[q].pc \in Busy /\ req'[q].body = req[q].body /\ req'[q].edited = req[q].edited
    BY <1>1, <1>3, KeptOwn
  <2> QED BY <1>1, <2>1 DEF OwnFacts, BodyFresh, EditsKept, PageKept
<1>6. ShownFresh'
  BY <1>1 DEF OwnFacts, ShownFresh, PageKept
<1>7. "chatbot" \in Queries
  BY DEF Queries
<1>8. CASE Overtaken("chatbot")
  <2>1. ~(Quiet' /\ fetch'["chatbot"].at \in {"idle", "answered"})
    BY <1>8 DEF Overtaken, Quiet
  <2> QED BY <1>4, <1>5, <1>6, <2>1 DEF OwnFacts, CacheFresh, RowsFresh
<1>9. CASE ~Overtaken("chatbot")
  <2>1. fetch'["chatbot"] = fetch["chatbot"]
    BY <1>1, <1>7, <1>9
  <2>2. ~OwnSave(r)
    <3> SUFFICES ASSUME OwnSave(r) PROVE FALSE
      OBVIOUS
    <3>1. req[r].pc # "refused"
      BY <1>1 DEF FormInv, RequestsOK, RequestOK, OwnSave
    <3>2. req[r].pc # "cut"
      BY <1>1 DEF Undisturbed, At
    <3>3. Query(req[r].form) = "chatbot"
      BY QueryTable DEF OwnSave
    <3> QED BY <1>1, <1>9, <3>1, <3>2, <3>3
  <2>3. Quiet' => Quiet
    BY <1>1, <2>1, <2>2, KeptOwn DEF Quiet
  <2>4. CacheFresh' /\ RowsFresh'
    BY <1>1, <2>1, <2>3 DEF OwnFacts, CacheFresh, RowsFresh
  <2> QED BY <1>4, <1>5, <1>6, <2>4 DEF OwnFacts
<1> QED BY <1>8, <1>9

LEMMA OwnStart ==
  ASSUME FormInv, FormInv', OneSave, OneSave', OwnFacts, Undisturbed', NEW r \in Requests, SaveKind(r)
  PROVE  OwnFacts'
<1>1. PICK f \in AllForms, body \in Partial, first \in {"find", "refused"} :
        /\ f \in Tabs[page.tab] /\ page.tab \in DOMAIN Tabs
        /\ first = "find" <=> f \in ChatbotForms
        /\ DOMAIN body \subseteq DOMAIN page.shown /\ \A c \in DOMAIN body : body[c] = page.shown[c]
        /\ Started(r, f, body, first, page.edited \cap Columns[f], page.late, "page")
        /\ PageKept
        /\ row' = row /\ wanted' = wanted /\ cache' = cache /\ fetch' = fetch
  BY DEF SaveKind
<1>2. /\ \A q \in Requests \ {r} : Kept(q)
      /\ req[r].pc = "idle" /\ req'[r].by = "page" /\ req'[r].form = f /\ req'[r].late = page.late
      /\ first # "refused" => req'[r].body = body /\ req'[r].edited = page.edited \cap Columns[f]
  BY <1>1 DEF Started
<1>3. ~OwnSave(r)
  <2>1. req[r] = NoRequest
    BY <1>2 DEF FormInv, RequestsOK, RequestOK
  <2> QED BY <2>1, NoneAssumption DEF NoRequest, OwnSave
<1>4. RowWanted' /\ ShownFresh'
  BY <1>1 DEF OwnFacts, RowWanted, ShownFresh, PageKept
<1>5. Quiet' => Quiet
  BY <1>1, <1>2, <1>3, KeptOwn DEF Quiet
<1>6. CacheFresh' /\ RowsFresh'
  BY <1>1, <1>5 DEF OwnFacts, CacheFresh, RowsFresh
<1>7. \A q \in Requests \ {r} : OwnSave(q)' /\ req'[q].pc \in Busy =>
        /\ OwnSave(q) /\ req[q].pc \in Busy /\ req'[q].body = req[q].body /\ req'[q].edited = req[q].edited
  BY <1>2, KeptOwn
<1>8. CASE ~OwnSave(r)'
  <2>1. BodyFresh' /\ EditsKept'
    BY <1>1, <1>7, <1>8 DEF OwnFacts, BodyFresh, EditsKept, PageKept
  <2> QED BY <1>4, <1>6, <2>1 DEF OwnFacts
<1>9. CASE OwnSave(r)'
  <2>1. f \in ChatbotForms /\ page.tab = f /\ page.tab \in ChatbotForms
    <3>1. f \in ChatbotForms
      BY <1>2, <1>9 DEF OwnSave
    <3> QED BY <1>1, <3>1, TabTable, FormTable
  <2>2. req'[r].body = body /\ req'[r].edited = page.edited \cap Columns[f]
    BY <1>1, <1>2, <2>1
  <2>3. ~page.late
    BY <1>2 DEF Undisturbed
  <2>4. DOMAIN page.shown \subseteq Columns[f]
    <3>1. ShownOK(page)
      BY DEF FormInv
    <3> QED BY <2>1, <3>1, TabTable, UnloadedPartial DEF ShownOK
  <2>5. \A c \in DOMAIN body \ (page.edited \cap Columns[f]) : body[c] = row[c]
    <3>1. \A c \in DOMAIN page.shown \ page.edited : page.shown[c] = row[c]
      BY <2>1, <2>3 DEF OwnFacts, ShownFresh
    <3> QED BY <1>1, <2>4, <3>1
  <2>6. BodyFresh'
    BY <1>1, <1>7, <2>2, <2>5 DEF OwnFacts, BodyFresh
  <2>7. EditsKept'
    BY <1>1, <1>7, <2>2 DEF OwnFacts, EditsKept, PageKept
  <2> QED BY <1>4, <1>6, <2>6, <2>7 DEF OwnFacts
<1> QED BY <1>8, <1>9

(* The page changes, the requests do not. *)
LEMMA OwnEdit ==
  ASSUME FormInv, OwnFacts, EditKind
  PROVE  OwnFacts'
<1>1. /\ page'.tab = page.tab /\ page'.late = page.late
      /\ DOMAIN page'.shown = DOMAIN page.shown /\ page.edited \subseteq page'.edited
      /\ \A x \in DOMAIN page.shown \ page'.edited : page'.shown[x] = page.shown[x]
      /\ row' = row /\ wanted' = wanted /\ req' = req /\ cache' = cache /\ fetch' = fetch
  BY DEF EditKind
<1>2. RowWanted' /\ BodyFresh'
  BY <1>1 DEF OwnFacts, RowWanted, BodyFresh, OwnSave
<1>3. EditsKept' /\ ShownFresh'
  BY <1>1 DEF OwnFacts, EditsKept, ShownFresh, OwnSave
<1>4. CacheFresh' /\ RowsFresh'
  BY <1>1 DEF OwnFacts, CacheFresh, RowsFresh, Quiet, OwnSave
<1> QED BY <1>2, <1>3, <1>4 DEF OwnFacts

LEMMA OwnOpen ==
  ASSUME FormInv, OwnFacts, NEW tab \in DOMAIN Tabs, OpenKind(tab)
  PROVE  OwnFacts'
<1>1. /\ page'.tab = tab /\ page'.edited = {}
      /\ \A q \in Queries : fetch'[q] = fetch[q] \/ Overtaken(q)
      /\ row' = row /\ wanted' = wanted /\ req' = req /\ cache' = cache
      /\ tab \in ChatbotForms /\ Saving("chatbot") => page'.late
      /\ tab \in ChatbotForms /\ ~page'.late =>
           /\ fetch["chatbot"].at = "idle" /\ ~fetch["chatbot"].missed /\ ~Saving("chatbot")
           /\ \A c \in DOMAIN page'.shown : c \in DOMAIN cache["chatbot"] /\ page'.shown[c] = cache["chatbot"][c]
  BY DEF OpenKind
<1>2. RowWanted' /\ BodyFresh'
  BY <1>1 DEF OwnFacts, RowWanted, BodyFresh, OwnSave
<1>3. EditsKept'
  BY <1>1, SavingOwn DEF EditsKept, OwnSave
<1>4. ShownFresh'
  BY <1>1, SavingOwn DEF OwnFacts, ShownFresh, CacheFresh, Quiet
<1>5. fetch'["chatbot"] = fetch["chatbot"] \/ Overtaken("chatbot")
  BY <1>1 DEF Queries
<1>6. CacheFresh' /\ RowsFresh'
  <2>1. CASE fetch'["chatbot"] = fetch["chatbot"]
    BY <1>1, <2>1 DEF OwnFacts, CacheFresh, RowsFresh, Quiet, OwnSave
  <2>2. CASE Overtaken("chatbot")
    BY <2>2 DEF Overtaken, CacheFresh, RowsFresh, Quiet
  <2> QED BY <1>5, <2>1, <2>2
<1> QED BY <1>2, <1>3, <1>4, <1>6 DEF OwnFacts

LEMMA OwnRead ==
  ASSUME FormInv, OwnFacts, NEW q \in Queries, ReadKind(q)
  PROVE  OwnFacts'
<1>1. /\ fetch'[q].at = "answered" /\ \A c \in DOMAIN fetch'[q].rows : fetch'[q].rows[c] = row[c]
      /\ \A x \in Queries \ {q} : fetch'[x] = fetch[x]
      /\ row' = row /\ wanted' = wanted /\ req' = req /\ page' = page /\ cache' = cache
  BY DEF ReadKind
<1>2. RowWanted' /\ BodyFresh' /\ EditsKept' /\ ShownFresh'
  BY <1>1 DEF OwnFacts, RowWanted, BodyFresh, EditsKept, ShownFresh, OwnSave
<1>3. CASE q = "chatbot"
  BY <1>1, <1>2, <1>3 DEF OwnFacts, CacheFresh, RowsFresh
<1>4. CASE q # "chatbot"
  <2>1. fetch'["chatbot"] = fetch["chatbot"]
    BY <1>1, <1>4 DEF Queries
  <2> QED BY <1>1, <1>2, <2>1 DEF OwnFacts, CacheFresh, RowsFresh, Quiet, OwnSave
<1> QED BY <1>3, <1>4

LEMMA OwnShow ==
  ASSUME FormInv, OwnFacts, NEW q \in Queries, ShowKind(q)
  PROVE  OwnFacts'
<1>1. /\ fetch[q].at = "answered" /\ fetch'[q].at = "idle" /\ fetch'[q].missed = fetch[q].missed
      /\ cache'[q] = fetch[q].rows
      /\ \A x \in Queries \ {q} : fetch'[x] = fetch[x] /\ cache'[x] = cache[x]
      /\ row' = row /\ wanted' = wanted /\ req' = req
  BY DEF ShowKind
<1>2. RowWanted' /\ BodyFresh'
  BY <1>1 DEF OwnFacts, RowWanted, BodyFresh, OwnSave
<1>3. CacheFresh' /\ RowsFresh'
  <2>1. CASE q = "chatbot"
    BY <1>1, <2>1 DEF OwnFacts, CacheFresh, RowsFresh, Quiet, OwnSave
  <2>2. CASE q # "chatbot"
    <3>1. fetch'["chatbot"] = fetch["chatbot"] /\ cache'["chatbot"] = cache["chatbot"]
      BY <1>1, <2>2 DEF Queries
    <3> QED BY <1>1, <3>1 DEF OwnFacts, CacheFresh, RowsFresh, Quiet, OwnSave
  <2> QED BY <2>1, <2>2
<1>4. CASE page' = page
  <2>1. EditsKept' /\ ShownFresh'
    BY <1>1, <1>4 DEF OwnFacts, EditsKept, ShownFresh, OwnSave
  <2> QED BY <1>2, <1>3, <2>1 DEF OwnFacts
<1>5. CASE page' # page
  <2>1. /\ page'.tab = page.tab /\ page'.edited = {} /\ QueryOf(page.tab) = q
        /\ page.tab \in ChatbotForms /\ ~page'.late =>
             /\ ~fetch[q].missed /\ ~Saving(q)
             /\ \A c \in DOMAIN page'.shown : c \in DOMAIN fetch[q].rows /\ page'.shown[c] = fetch[q].rows[c]
        /\ page.tab \in ChatbotForms /\ Saving("chatbot") => page'.late
    BY <1>5 DEF ShowKind
  <2>2. page.tab \in ChatbotForms => q = "chatbot"
    BY <2>1, QueryTable
  <2>3. EditsKept'
    BY <1>1, <2>1, SavingOwn DEF EditsKept, OwnSave
  <2>4. ShownFresh'
    <3> SUFFICES ASSUME page.tab \in ChatbotForms, ~page'.late, NEW c \in DOMAIN page'.shown
                 PROVE  page'.shown[c] = row'[c]
      BY <2>1 DEF ShownFresh
    <3>1. q = "chatbot" /\ Quiet
      BY <2>1, <2>2, SavingOwn DEF Quiet
    <3>2. \A x \in DOMAIN fetch[q].rows : fetch[q].rows[x] = row[x]
      BY <1>1, <3>1 DEF OwnFacts, RowsFresh
    <3> QED BY <1>1, <2>1, <3>2
  <2> QED BY <1>2, <1>3, <2>3, <2>4 DEF OwnFacts
<1> QED BY <1>4, <1>5

LEMMA OwnLeave ==
  ASSUME FormInv, OwnFacts, CrashKind \/ ReloadKind
  PROVE  OwnFacts'
<1>1. /\ page'.tab \notin ChatbotForms
      /\ row' = row /\ wanted' = wanted
  BY FormTable DEF CrashKind, ReloadKind
<1>2. RowWanted' /\ EditsKept' /\ ShownFresh'
  BY <1>1 DEF OwnFacts, RowWanted, EditsKept, ShownFresh
<1>3. CASE CrashKind
  <2>1. req' = req /\ cache' = cache /\ fetch' = fetch
    BY <1>3 DEF CrashKind
  <2> QED BY <1>1, <1>2, <2>1 DEF OwnFacts, BodyFresh, CacheFresh, RowsFresh, Quiet, OwnSave
<1>4. CASE ReloadKind
  <2>1. \A r \in Requests : ~OwnSave(r)'
    BY <1>4 DEF ReloadKind, OwnSave
  <2>2. fetch'["chatbot"].at = "stale"
    BY <1>4 DEF ReloadKind, Queries
  <2> QED BY <1>2, <2>1, <2>2 DEF OwnFacts, BodyFresh, CacheFresh, RowsFresh
<1> QED BY <1>3, <1>4

LEMMA OwnStep ==
  ASSUME FormInv, FormInv', OneSave, OneSave', OwnInv, StepKinds \/ UNCHANGED vars
  PROVE  OwnInv'
<1> SUFFICES ASSUME Undisturbed' PROVE OwnFacts'
  BY DEF OwnInv
<1>1. OwnFacts
  BY UndisturbedKept DEF OwnInv
<1>2. ASSUME NEW r \in Requests, CutKind(r) PROVE FALSE
  BY <1>2 DEF CutKind, Undisturbed, At
<1>3. CASE UNCHANGED vars
  <2>1. UNCHANGED <<row, wanted, req, page, cache, fetch>>
    BY <1>3 DEF vars, dbVars, pageVars
  <2> QED BY <1>1, <2>1 DEF OwnFacts, RowWanted, BodyFresh, EditsKept, ShownFresh, CacheFresh, RowsFresh,
        Quiet, OwnSave
<1> QED BY <1>1, <1>2, <1>3, OwnApi, OwnFind, OwnWrite, OwnAnswer, OwnStart, OwnEdit, OwnOpen, OwnRead,
      OwnShow, OwnLeave DEF StepKinds

LEMMA OwnInvariant == Spec => []OwnInv
<1>1. OwnInv /\ FormInv /\ FormInv' /\ OneSave /\ OneSave' /\ [Next]_vars => OwnInv'
  BY FormStep, OwnStep
<1> QED BY <1>1, OwnInit, FormInvariant, OneSaveInvariant, PTL DEF Spec

(* Forms!OwnEditsStand: undisturbed, the tabs of the chatbot page never     *)
(* take back an edit that was saved before, although each save sends every *)
(* column that its form shows.                                             *)
THEOREM EditsCorrect == Spec => []OwnEditsStand
<1>1. OwnInv => OwnEditsStand
  BY DEF OwnInv, OwnFacts, RowWanted, OwnEditsStand
<1> QED BY <1>1, OwnInvariant, PTL

(* Forms!FormShowsRow: an unedited form shows what is stored when nothing   *)
(* is under way.                                                           *)
THEOREM ShownCorrect == Spec => []FormShowsRow
<1>1. OwnInv => FormShowsRow
  BY DEF OwnInv, OwnFacts, ShownFresh, FormShowsRow
<1> QED BY <1>1, OwnInvariant, PTL
=============================================================================
