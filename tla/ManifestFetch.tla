---------------------------- MODULE ManifestFetch -----------------------------
(***************************************************************************)
(* The first part of fetch_mpd (src/src/fetch.rs): the manifest is         *)
(* requested, its remote elements are resolved and the user's stylesheets  *)
(* applied, all of it once more if the manifest has a Location; then each  *)
(* stream of each period gets the URL that its segments are relative to.   *)
(*                                                                         *)
(* What links lead to is the subject of module XLink: here it matters only *)
(* where they are looked for.                                              *)
(***************************************************************************)
EXTENDS Integers, Sequences

CONSTANTS
  Settings,           (* Calls: see Setting.                               *)
  Webs,               (* The manifests found at each place.                *)
  Redirects,          (* Where a request for a place may end up, if not    *)
                      (* there.                                            *)
  BackonRetries       (* Retries of ExponentialBuilder::default().         *)

(* A URL is a server, directories and a file name ("" for a directory),    *)
(* and a query, say a token that the server wants to see.  A reference is  *)
(* a URL, absolute or not, or something that cannot be parsed; where there *)
(* may be several, as BaseURL elements, they are a sequence.               *)
URL == [place : Seq(STRING), query : STRING]
Reference == [form : {"absolute", "relative", "malformed"}, place : Seq(STRING), query : STRING]
IsLocal(place) == place[1] = "file:"

Kinds == {"audio", "video", "subs"}
Stream == [adaptation : Seq(Reference), representation : Seq(Reference)]
Period == [base : Seq(Reference), streams : [Kinds -> Stream]]

(* form: whether it is XML with an MPD element; links: of its remote       *)
(* elements.                                                               *)
Document ==
  [form : {"mpd", "other", "invalid"}, links : Seq(Reference), locations : Seq(Reference),
   dynamic : BOOLEAN, base : Seq(Reference), periods : Seq(Period)]

(* mpd_url, base_url, xslt_stylesheets, allow_live_streams, the streams to *)
(* fetch, DASHMPD_PERSIST_FILES.  A stylesheet takes something away.       *)
Features == {"locations", "dynamic", "base"}
Setting ==
  [url : URL, base : Seq(Reference), stylesheets : Seq(SUBSET Features), live : BOOLEAN,
   fetch : SUBSET Kinds, persist : BOOLEAN]

ManifestFetchAssumption ==
  /\ Settings \subseteq Setting
  /\ \A web \in Webs : \A place \in DOMAIN web : web[place] \in Document
  /\ \A place \in DOMAIN Redirects : Redirects[place] \subseteq URL
  /\ BackonRetries \in Nat

VARIABLES
  setting, web,
  pc, fault,
  target, attempts,   (* The URL requested, transient errors so far.       *)
  relocated,          (* Whether it is that of a Location.                 *)
  redirected_url,     (* Where the manifest comes from, for all we know.   *)
  source,             (* History: where it does.                           *)
  mpd, styled,        (* The manifest, and stylesheets applied to it.      *)
  linked,             (* History: URLs asked for its remote elements.      *)
  tmpmpd,             (* Temporary manifests that were left behind.        *)
  toplevel_base_url, base_url,
  period_counter,
  planned             (* Base URL and plain BaseURL of the streams, by     *)
                      (* period and kind.                                  *)

request == <<target, attempts, relocated>>
received == <<redirected_url, source, mpd, styled, linked>>
bases == <<toplevel_base_url, base_url, period_counter, planned>>
vars == <<setting, web, pc, fault, request, received, tmpmpd, bases>>

NoURL == [place |-> << >>, query |-> "none"]
NoDocument ==
  [form |-> "mpd", links |-> << >>, locations |-> << >>, dynamic |-> FALSE, base |-> << >>,
   periods |-> << >>]

Init ==
  /\ setting \in Settings /\ web \in Webs
  /\ pc = "request" /\ fault = "none"
  /\ target = setting.url /\ attempts = 0 /\ relocated = FALSE
  /\ redirected_url = setting.url /\ source = NoURL /\ mpd = NoDocument /\ styled = 0 /\ linked = {}
  /\ tmpmpd = 0
  /\ toplevel_base_url = NoURL /\ base_url = NoURL /\ period_counter = 0 /\ planned = << >>

Goto(label) == pc' = label /\ UNCHANGED fault
Return(kind) == pc' = "err" /\ fault' = kind

-----------------------------------------------------------------------------
(* The request.                                                            *)

Landing(url) == IF url.place \in DOMAIN Redirects THEN Redirects[url.place] ELSE {url}
Requesting == pc = "request" /\ ~IsLocal(target.place)

(* Timeouts and some statuses are retried.                                 *)
Retry ==
  /\ Requesting /\ attempts < BackonRetries
  /\ attempts' = attempts + 1
  /\ UNCHANGED <<setting, web, pc, fault, target, relocated, received, tmpmpd, bases>>

RequestFails ==
  /\ Requesting /\ Return("Network")
  /\ UNCHANGED <<setting, web, request, received, tmpmpd, bases>>

Receive(url) ==
  /\ source' = url /\ mpd' = web[url.place] /\ styled' = 0 /\ linked' = {}
  /\ Goto("parse")

(* Mutant of Answer: a relocated manifest is taken to be where it was.     *)
Answer_FirstURL ==
  /\ Requesting
  /\ \E url \in Landing(target) :
       /\ url.place \in DOMAIN web
       /\ redirected_url' = IF relocated THEN redirected_url ELSE url
       /\ Receive(url)
  /\ UNCHANGED <<setting, web, request, tmpmpd, bases>>

Answer ==
  /\ Requesting
  /\ \E url \in Landing(target) :
       /\ url.place \in DOMAIN web
       /\ redirected_url' = url
       /\ Receive(url)
  /\ UNCHANGED <<setting, web, request, tmpmpd, bases>>

(* The body breaks off.                                                    *)
BodyFails ==
  /\ Requesting
  /\ \E url \in Landing(target) : url.place \in DOMAIN web /\ redirected_url' = url
  /\ Return("Network")
  /\ UNCHANGED <<setting, web, request, source, mpd, styled, linked, tmpmpd, bases>>

(* A file:// URL: only the manifest that the user names may have one.      *)
ReadFile ==
  /\ pc = "request" /\ IsLocal(target.place) /\ ~relocated
  /\ IF target.place \in DOMAIN web THEN Receive(target) /\ UNCHANGED redirected_url
     ELSE Return("Other") /\ UNCHANGED received
  /\ UNCHANGED <<setting, web, request, tmpmpd, bases>>

-----------------------------------------------------------------------------
(* From octets to a manifest.                                              *)

Directory(url) == SubSeq(url.place, 1, Len(url.place) - 1)

Parse ==
  /\ pc = "parse"
  /\ IF mpd.form = "mpd" THEN Goto("links") ELSE Return("Parsing")
  /\ UNCHANGED <<setting, web, request, received, tmpmpd, bases>>

(* A relative link has the query of the manifest, and loses its own.       *)
LinkURL(url, link) ==
  IF link.form = "absolute" THEN [place |-> link.place, query |-> link.query]
  ELSE [place |-> Directory(url) \o link.place, query |-> url.query]
LinkURLs(url) == {LinkURL(url, mpd.links[k]) : k \in DOMAIN mpd.links}

ResolveLinks ==
  /\ pc = "links"
  /\ \/ /\ \A k \in DOMAIN mpd.links : mpd.links[k].form # "malformed"
        /\ \A url \in LinkURLs(redirected_url) : ~IsLocal(url.place)
        /\ linked' = LinkURLs(redirected_url)
        /\ Goto("style")
     \/ mpd.links # << >> /\ Return("Parsing") /\ UNCHANGED linked
  /\ UNCHANGED <<setting, web, request, redirected_url, source, mpd, styled, tmpmpd, bases>>

Without(document, features) ==
  [document EXCEPT !.locations = IF "locations" \in features THEN << >> ELSE @,
                   !.dynamic = IF "dynamic" \in features THEN FALSE ELSE @,
                   !.base = IF "base" \in features THEN << >> ELSE @]

Styling == pc = "style" /\ styled < Len(setting.stylesheets)

(* xsltproc reads a temporary file, which is removed if possible and not   *)
(* to be kept.                                                             *)
ApplyStylesheet ==
  /\ Styling
  /\ mpd' = Without(mpd, setting.stylesheets[styled + 1]) /\ styled' = styled + 1
  /\ tmpmpd' \in {tmpmpd + 1} \cup (IF setting.persist THEN {} ELSE {tmpmpd})
  /\ UNCHANGED <<setting, web, pc, fault, request, redirected_url, source, linked, bases>>

(* A file that cannot be written, no xsltproc, or one that fails: whatever *)
(* goes wrong from links to stylesheets is returned as a parsing error.    *)
StylesheetFails ==
  /\ Styling
  /\ tmpmpd' \in {tmpmpd, tmpmpd + 1}
  /\ Return("Parsing")
  /\ UNCHANGED <<setting, web, request, received, bases>>

Location == mpd.locations[1]

(* Only one Location is followed, and not that of the manifest found there.*)
Read ==
  /\ pc = "style" /\ styled = Len(setting.stylesheets)
  /\ \/ /\ mpd.locations = << >> \/ relocated
        /\ Goto("manifest") /\ UNCHANGED request
     \/ /\ mpd.locations # << >> /\ ~relocated
        /\ IF Location.form = "absolute" /\ ~IsLocal(Location.place)
             THEN /\ target' = [place |-> Location.place, query |-> Location.query]
                  /\ attempts' = 0 /\ relocated' = TRUE
                  /\ Goto("request")
             ELSE Return("Network") /\ UNCHANGED request
     \/ Return("Parsing") /\ UNCHANGED request
  /\ UNCHANGED <<setting, web, received, tmpmpd, bases>>

-----------------------------------------------------------------------------
(* Base URLs.                                                              *)

(* Mutant of merge_baseurls: Url::join and nothing else.                   *)
merge_baseurls_Join(current, new) ==
  IF new.form = "absolute" THEN [place |-> new.place, query |-> new.query]
  ELSE [place |-> Directory(current) \o new.place, query |-> new.query]

merge_baseurls(current, new) ==
  IF new.form = "absolute" THEN [place |-> new.place, query |-> new.query]
  ELSE [place |-> Directory(current) \o new.place,
        query |-> IF new.query = "none" THEN current.query ELSE new.query]

(* Of several references the first counts.                                 *)
Merged(url, references) ==
  IF references = << >> THEN url ELSE merge_baseurls(url, references[1])
Malformed(references) == references # << >> /\ references[1].form = "malformed"

ReadManifest ==
  /\ pc = "manifest"
  /\ IF mpd.dynamic /\ ~setting.live THEN Return("UnhandledMediaStream") /\ UNCHANGED toplevel_base_url
     ELSE IF Malformed(mpd.base) \/ Malformed(setting.base)
       THEN Return("Parsing") /\ UNCHANGED toplevel_base_url
     ELSE /\ toplevel_base_url' =
               Merged(redirected_url, IF setting.base # << >> THEN setting.base ELSE mpd.base)
          /\ Goto("period")
  /\ UNCHANGED <<setting, web, request, received, tmpmpd, base_url, period_counter, planned>>

NothingPlanned == [kind \in Kinds |-> [base |-> NoURL, file |-> NoURL]]

NextPeriod ==
  /\ pc = "period" /\ period_counter < Len(mpd.periods)
  /\ LET period == mpd.periods[period_counter + 1] IN
     IF Malformed(period.base) THEN Return("Parsing") /\ UNCHANGED <<base_url, period_counter, planned>>
     ELSE /\ base_url' = Merged(toplevel_base_url, period.base)
          /\ period_counter' = period_counter + 1
          /\ planned' = Append(planned, NothingPlanned)
          /\ Goto("audio")
  /\ UNCHANGED <<setting, web, request, received, tmpmpd, toplevel_base_url>>

(* The BaseURL of a Representation is merged into the base URL, and for    *)
(* plain BaseURL addressing once more; not so for subtitles.               *)
PlanAudioVideo(s) ==
  LET base == Merged(Merged(base_url, s.adaptation), s.representation)
  IN  [base |-> base, file |-> Merged(base, s.representation)]
PlanSubtitles(s) ==
  LET base == Merged(base_url, s.adaptation)
  IN  [base |-> base, file |-> Merged(base, s.representation)]

(* refused: what is done about a reference that cannot be parsed.          *)
PlanStream(kind, next, plan, refused) ==
  LET s == mpd.periods[period_counter].streams[kind]
      bad == Malformed(s.adaptation) \/ Malformed(s.representation)
  IN  /\ pc = kind
      /\ \/ /\ kind \notin setting.fetch
            /\ Goto(next) /\ UNCHANGED planned
         \/ /\ kind \in setting.fetch /\ ~bad
            /\ planned' = [planned EXCEPT ![period_counter][kind] = plan]
            /\ Goto(next)
         \/ /\ kind \in setting.fetch /\ bad
            /\ refused /\ UNCHANGED planned
      /\ UNCHANGED <<setting, web, request, received, tmpmpd, toplevel_base_url, base_url, period_counter>>

StreamOf(kind) == mpd.periods[period_counter].streams[kind]
PlanAudio == PlanStream("audio", "video", PlanAudioVideo(StreamOf("audio")), Return("Parsing"))
PlanVideo == PlanStream("video", "subs", PlanAudioVideo(StreamOf("video")), Return("Parsing"))
PlanSubs == PlanStream("subs", "period", PlanSubtitles(StreamOf("subs")), Goto("period"))

Done ==
  /\ pc = "period" /\ period_counter = Len(mpd.periods)
  /\ Goto("ok")
  /\ UNCHANGED <<setting, web, request, received, tmpmpd, bases>>

Next ==
  \/ Retry \/ RequestFails \/ Answer \/ BodyFails \/ ReadFile
  \/ Parse \/ ResolveLinks \/ ApplyStylesheet \/ StylesheetFails \/ Read
  \/ ReadManifest \/ NextPeriod \/ PlanAudio \/ PlanVideo \/ PlanSubs \/ Done

Spec == Init /\ [][Next]_vars

-----------------------------------------------------------------------------
Applied == UNION {setting.stylesheets[k] : k \in 1..styled}
Planning == {"period", "audio", "video", "subs", "ok"}

(* What is planned from is one document: its base is where it was found,   *)
(* at the Location if there is one, its remote elements were looked for    *)
(* there, all stylesheets were applied to it, and if it is live the user   *)
(* wants that (fetch.rs:4606-4685, "We make a new request to the URI and   *)
(* reparse").                                                              *)
DocumentInForce ==
  pc \in Planning =>
    /\ redirected_url = source
    /\ mpd = Without(web[source.place], UNION {setting.stylesheets[k] : k \in DOMAIN setting.stylesheets})
    /\ linked = LinkURLs(source)
    /\ mpd.locations # << >> => relocated
    /\ mpd.dynamic => setting.live

(* References from the manifest down to a stream, of which several may be  *)
(* missing, lead to the innermost absolute one, down from there through    *)
(* the directories of the others, with the innermost query: "careful to    *)
(* merge the query portion ... if the new URL already has a query string,  *)
(* it takes precedence" (comment, fetch.rs:1213-1216).                     *)
First(references) == IF references = << >> THEN << >> ELSE <<references[1]>>
Chain(k, kind) ==
  LET period == mpd.periods[k]
      repr   == IF kind = "subs" THEN << >> ELSE period.streams[kind].representation
  IN  <<[form |-> "absolute", place |-> source.place, query |-> source.query]>>
        \o First(IF setting.base # << >> THEN setting.base ELSE mpd.base)
        \o First(period.base) \o First(period.streams[kind].adaptation) \o First(repr)

Largest(S) == CHOOSE x \in S : \A y \in S : y <= x
Meant(chain) ==
  LET from == Largest({j \in DOMAIN chain : chain[j].form = "absolute"})
      queries == {j \in from..Len(chain) : chain[j].query # "none"}
      Down[j \in from..Len(chain)] ==
        IF j = from THEN chain[j].place
        ELSE Directory([place |-> Down[j - 1]]) \o chain[j].place
  IN  [place |-> Down[Len(chain)],
       query |-> IF queries = {} THEN "none" ELSE chain[Largest(queries)].query]

(* Every stream of every period has the base URL meant for it, whatever    *)
(* those planned before it have, and unless its plain BaseURL has          *)
(* directories of its own the content is looked for there (fetch.rs:       *)
(* 1208-1232, 2492-2500, 4676-4718).                                       *)
BaseResolved ==
  \A k \in DOMAIN planned, kind \in setting.fetch :
    LET repr == mpd.periods[k].streams[kind].representation
        url  == planned[k][kind]
    IN  url.base # NoURL =>
          /\ url.base = Meant(Chain(k, kind))
          /\ kind # "subs" /\ repr # << >> /\ (repr[1].form = "absolute" \/ Len(repr[1].place) = 1) =>
               url.file = url.base
=============================================================================
