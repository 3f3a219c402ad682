------------------------------ MODULE Selection ------------------------------
(***************************************************************************)
(* Which of the streams that a period offers is downloaded, in each of     *)
(* do_period_audio, do_period_video and do_period_subtitles                *)
(* (src/src/fetch.rs): the AdaptationSets of the kind are narrowed down by *)
(* language and role, and their Representations by id, width, height,      *)
(* codec and quality.  The AdaptationSet of the Representation that is     *)
(* left is then searched for anew, by comparing contents.                  *)
(***************************************************************************)
EXTENDS AdaptationKinds, FiniteSets, FiniteSetsExt

CONSTANT Calls        (* What is offered, and what is wanted.              *)

Absent == -1
Optional(S) == S \cup {Absent}

(* What counts for a bandwidth that is not given, when low ones are good.  *)
Large == 1000000000

(* Representations have labels (AdaptationKinds) and what they offer;      *)
(* ranking is @qualityRanking.  A bandwidth is taken to be one a stream    *)
(* can have.                                                               *)
Representation ==
  [contentType : ContentTypes, mime : MimeTypes, codecs : Seq(STRING),
   id : STRING, width : Optional(Nat), height : Optional(Nat), ranking : Optional(Nat),
   bandwidth : Optional({b \in Nat : 0 < b /\ b < Large})]

(* lang: the edit distance of @lang from the language wanted; roles are    *)
(* named by their places in the alphabet.                                  *)
AdaptationSet ==
  [contentType : ContentTypes, mime : MimeTypes, codecs : Seq(STRING),
   text : BOOLEAN, lang : Optional(Nat), roles : Seq(Nat), representations : Seq(Representation)]

(* Preferences: language (is one given?), roles, ids (those that contain   *)
(* the substring, NoFilter for all), width, height, codecs (prefixes) and  *)
(* quality.                                                                *)
NoFilter == {"any"}
Call ==
  [kind : {"audio", "video", "subs"}, adaptations : Seq(AdaptationSet),
   language : BOOLEAN, roles : Seq(Nat), ids : SUBSET STRING,
   width : Optional(Nat), height : Optional(Nat), codecs : Seq(Seq(STRING) \ {<< >>}),
   quality : {"lowest", "intermediate", "highest"}]

SelectionAssumption == Calls \subseteq Call

(* Vectors of AdaptationSets and Representations are always in the order   *)
(* of the manifest, so that they are sets of positions here.               *)
VARIABLES
  call, pc,
  adaptations,        (* The AdaptationSets still considered: positions.   *)
  offered,            (* History: their Representations, before filtering. *)
  candidates,         (* Representations still considered, as <<position   *)
                      (* of the AdaptationSet, position in it>>.           *)
  chosen, parent,     (* The outcome, << >> and 0 if there is none.        *)
  format              (* subtitle_format                                   *)

vars == <<call, pc, adaptations, offered, candidates, chosen, parent, format>>

Set(a) == call.adaptations[a]
Repr(c) == Set(c[1]).representations[c[2]]

(* The first and the last Representation of a set, by position.            *)
Before(c, d) == c[1] < d[1] \/ (c[1] = d[1] /\ c[2] < d[2])
FirstOf(S) == CHOOSE c \in S : \A d \in S : d = c \/ Before(c, d)
LastOf(S) == CHOOSE c \in S : \A d \in S : d = c \/ Before(d, c)

(* min_by_key takes the first of several, max_by_key the last.             *)
Least(S, Key(_)) == Min({Key(x) : x \in S})
Greatest(S, Key(_)) == Max({Key(x) : x \in S})
With(S, Key(_), value) == {x \in S : Key(x) = value}
MinByKey(S, Key(_)) == FirstOf(With(S, Key, Least(S, Key)))
MaxByKey(S, Key(_)) == LastOf(With(S, Key, Greatest(S, Key)))
Or(attribute, default) == IF attribute = Absent THEN default ELSE attribute

Init ==
  /\ call \in Calls
  /\ pc = "kind"
  /\ adaptations = {} /\ offered = {} /\ candidates = {} /\ chosen = << >> /\ parent = 0
  /\ format = "none"

Goto(label) == pc' = label

Served == {a \in DOMAIN call.adaptations : IsOfKind(call.kind, Set(a))}

OfKind ==
  /\ pc = "kind"
  /\ adaptations' = Served
  /\ Goto("adaptations")
  /\ UNCHANGED <<call, offered, candidates, chosen, parent, format>>

-----------------------------------------------------------------------------
(* The AdaptationSets.                                                     *)

lang_distance(a) == IF Set(a).lang = Absent THEN 100 ELSE Min({Set(a).lang, 255})

(* slice::binary_search of a role in role_preference, which is assumed to  *)
(* be sorted.  What it returns for a list that is not depends on the       *)
(* standard library: an earlier one returns as soon as it meets the role,  *)
(* a later one halves the list down to one element.                        *)
binary_search(list, role, early) ==
  LET Found[size \in 0..Len(list)] ==
        [base \in Nat |->
           LET half == size \div 2
               at   == list[base + half + 1]
           IN  IF size = 0 THEN Absent
               ELSE IF early
                 THEN IF at = role THEN base + half
                      ELSE IF at < role THEN Found[size - half - 1][base + half + 1]
                      ELSE Found[half][base]
               ELSE IF size = 1 THEN IF at = role THEN base ELSE Absent
               ELSE Found[size - half][IF at > role THEN base ELSE base + half]]
  IN  Found[Len(list)][0]

role_distance(a, early) ==
  Min({255} \cup {Or(binary_search(call.roles, Set(a).roles[i], early), 255) : i \in DOMAIN Set(a).roles})

ByLanguage(S) == IF call.language THEN With(S, lang_distance, Least(S, lang_distance)) ELSE S
ByRole(S, early) ==
  LET distance(a) == role_distance(a, early) IN With(S, distance, Least(S, distance))

ReprsOf(a) == {<<a, r>> : r \in DOMAIN Set(a).representations}

(* Mutant of select_preferred_adaptations: roles go before languages.      *)
select_preferred_adaptations_RolesFirst(S, early) == ByLanguage(ByRole(S, early))

select_preferred_adaptations(S, early) == ByRole(ByLanguage(S), early)

(* Audio and video: the Representations of the preferred AdaptationSets.   *)
SelectAdaptations ==
  /\ pc = "adaptations" /\ call.kind # "subs"
  /\ \E early \in BOOLEAN : adaptations' = select_preferred_adaptations(adaptations, early)
  /\ offered' = UNION {ReprsOf(a) : a \in adaptations'}
  /\ candidates' = offered'
  /\ Goto(IF call.kind = "video" THEN "id" ELSE "audio")
  /\ UNCHANGED <<call, chosen, parent, format>>

(* Subtitles: the first Representation of the first AdaptationSet of the   *)
(* nearest language.                                                       *)
SelectSubtitles ==
  /\ pc = "adaptations" /\ call.kind = "subs"
  /\ IF adaptations = {} THEN UNCHANGED <<offered, candidates, chosen, parent, format>>
     ELSE /\ parent' = Min(ByLanguage(adaptations))
          /\ format' = subtitle_type(Set(parent'))
          /\ offered' = ReprsOf(parent') /\ candidates' = offered'
          /\ chosen' = IF offered' = {} THEN << >> ELSE FirstOf(offered')
  /\ Goto("ok")
  /\ UNCHANGED <<call, adaptations>>

-----------------------------------------------------------------------------
(* The Representations.                                                    *)

Filter(label, next, kept) ==
  /\ pc = label
  /\ candidates' = kept
  /\ Goto(next)
  /\ UNCHANGED <<call, adaptations, offered, chosen, parent, format>>

Wanted(c) == call.kind # "video" \/ call.ids = NoFilter \/ Repr(c).id \in call.ids
FilterId == Filter("id", "width", {c \in candidates : Wanted(c)})

(* u64::MAX: farther than any width or height.                             *)
Farthest == 2147483647
Distance(value, want) ==
  IF value = Absent THEN Farthest ELSE IF value < want THEN want - value ELSE value - want

(* Mutant of Nearest: only what is as wanted.                              *)
Nearest_Exact(S, attribute, want) ==
  {c \in S : want = Absent \/ Repr(c)[attribute] = want}

(* Those of the width or height of the first of the nearest ones.          *)
Nearest(S, attribute, want) ==
  LET Value(c) == Repr(c)[attribute]
      Off(c)   == Distance(Value(c), want)
  IN  IF want = Absent \/ S = {} THEN S ELSE With(S, Value, Value(MinByKey(S, Off)))

FilterWidth == Filter("width", "height", Nearest(candidates, "width", call.width))
FilterHeight == Filter("height", "codec", Nearest(candidates, "height", call.height))

(* The place of the first preference that the codec starts with.           *)
StartsWith(codecs, prefix) ==
  Len(prefix) <= Len(codecs) /\ \A i \in DOMAIN prefix : codecs[i] = prefix[i]
CodecPlace(c) ==
  LET met == {k \in DOMAIN call.codecs : StartsWith(Repr(c).codecs, call.codecs[k])}
  IN  IF met = {} THEN Farthest ELSE Min(met)
Family(c) == {Repr(c).codecs[k] : k \in DOMAIN Repr(c).codecs \cap {1}}

(* Those of the codec family of the best one, whatever their profiles; all *)
(* if that one does not name its codec.                                    *)
ByCodec(S) ==
  LET best == MinByKey(S, CodecPlace) IN
  IF call.codecs = << >> \/ S = {} \/ Repr(best).codecs = << >> THEN S
  ELSE With(S, Family, Family(best))
FilterCodec == Filter("codec", "quality", ByCodec(candidates))

(* Rankings count if all Representations have one: low values are good.    *)
(* Else bandwidth does, and an unknown one is never the best choice.       *)
Ranking(c) == Repr(c).ranking
Ranked(S) == \A c \in S : Ranking(c) # Absent
LowBandwidth(c) == Or(Repr(c).bandwidth, Large)
HighBandwidth(c) == Or(Repr(c).bandwidth, 0)

(* The element count / 2 of the sorted values, counted from zero.          *)
Middle(S, Key(_)) ==
  CHOOSE v \in {Key(x) : x \in S} :
    /\ Cardinality({x \in S : Key(x) < v}) <= Cardinality(S) \div 2
    /\ Cardinality({x \in S : Key(x) <= v}) > Cardinality(S) \div 2

ByQuality(S) ==
  CASE S = {} -> S
    [] S # {} /\ Ranked(S) ->
         With(S, Ranking, CASE call.quality = "lowest" -> Greatest(S, Ranking)
                            [] call.quality = "highest" -> Least(S, Ranking)
                            [] call.quality = "intermediate" -> Middle(S, Ranking))
    [] S # {} /\ ~Ranked(S) ->
         CASE call.quality = "lowest" -> With(S, LowBandwidth, Least(S, LowBandwidth))
           [] call.quality = "highest" -> With(S, HighBandwidth, Greatest(S, HighBandwidth))
           [] call.quality = "intermediate" -> With(S, LowBandwidth, Middle(S, LowBandwidth))
FilterQuality == Filter("quality", "first", ByQuality(candidates))

TakeFirst ==
  /\ pc = "first"
  /\ IF candidates = {} THEN UNCHANGED chosen /\ Goto("ok")
     ELSE chosen' = FirstOf(candidates) /\ Goto("parent")
  /\ UNCHANGED <<call, adaptations, offered, candidates, parent, format>>

(* Mutant of select_preferred_representation: an unknown bandwidth is low. *)
select_preferred_representation_UnknownIsLow(S) ==
  CASE Ranked(S) /\ call.quality = "lowest" -> MaxByKey(S, Ranking)
    [] Ranked(S) /\ call.quality = "highest" -> MinByKey(S, Ranking)
    [] Ranked(S) /\ call.quality = "intermediate" -> FirstOf(With(S, Ranking, Middle(S, Ranking)))
    [] ~Ranked(S) /\ call.quality = "lowest" -> MinByKey(S, HighBandwidth)
    [] ~Ranked(S) /\ call.quality = "highest" -> MaxByKey(S, HighBandwidth)
    [] ~Ranked(S) /\ call.quality = "intermediate" ->
         FirstOf(With(S, HighBandwidth, Middle(S, HighBandwidth)))

(* Audio: by quality only.  With an intermediate one an unknown bandwidth  *)
(* counts as a tenth of Large.                                             *)
MediumBandwidth(c) == Or(Repr(c).bandwidth, Large \div 10)
select_preferred_representation(S) ==
  CASE Ranked(S) /\ call.quality = "lowest" -> MaxByKey(S, Ranking)
    [] Ranked(S) /\ call.quality = "highest" -> MinByKey(S, Ranking)
    [] Ranked(S) /\ call.quality = "intermediate" -> FirstOf(With(S, Ranking, Middle(S, Ranking)))
    [] ~Ranked(S) /\ call.quality = "lowest" -> MinByKey(S, LowBandwidth)
    [] ~Ranked(S) /\ call.quality = "highest" -> MaxByKey(S, HighBandwidth)
    [] ~Ranked(S) /\ call.quality = "intermediate" ->
         FirstOf(With(S, MediumBandwidth, Middle(S, MediumBandwidth)))

SelectAudio ==
  /\ pc = "audio"
  /\ IF candidates = {} THEN UNCHANGED chosen /\ Goto("ok")
     ELSE chosen' = select_preferred_representation(candidates) /\ Goto("parent")
  /\ UNCHANGED <<call, adaptations, offered, candidates, parent, format>>

(* The first AdaptationSet of the period, of whatever kind, that has an    *)
(* equal Representation: its language, base URL and templates are used.    *)
FindParent ==
  /\ pc = "parent"
  /\ parent' = Min({a \in DOMAIN call.adaptations :
                      \E r \in DOMAIN Set(a).representations : Repr(<<a, r>>) = Repr(chosen)})
  /\ Goto("ok")
  /\ UNCHANGED <<call, adaptations, offered, candidates, chosen, format>>

Next ==
  \/ OfKind \/ SelectAdaptations \/ SelectSubtitles
  \/ FilterId \/ FilterWidth \/ FilterHeight \/ FilterCodec \/ FilterQuality \/ TakeFirst
  \/ SelectAudio \/ FindParent

Spec == Init /\ [][Next]_vars

-----------------------------------------------------------------------------
Selected == pc = "ok" /\ chosen # << >>

(* No two Representations of the period say the same: @id is unique.       *)
AllReprs == UNION {ReprsOf(a) : a \in DOMAIN call.adaptations}
DistinctReprs == \A c, d \in AllReprs : Repr(c) = Repr(d) => c = d

RolePlace(a) ==
  Min({255} \cup {k \in DOMAIN call.roles : \E i \in DOMAIN Set(a).roles : Set(a).roles[i] = call.roles[k]})
SameLanguage(a) == call.language => lang_distance(a) = lang_distance(parent)
RolesInOrder ==
  Selected /\ call.kind # "subs" /\ DistinctReprs =>
    \A a \in Served : SameLanguage(a) => RolePlace(parent) <= RolePlace(a)

(* The AdaptationSet that is used, found by comparing Representations, is  *)
(* of the language nearest to the one wanted and, among those, of the      *)
(* first role preferred, if the preferences are in alphabetical order (see *)
(* binary_search).                                                         *)
AlphabeticRoles == \A j, k \in DOMAIN call.roles : j < k => call.roles[j] < call.roles[k]
PreferredAdaptation ==
  Selected /\ DistinctReprs =>
    /\ IsOfKind(call.kind, Set(parent))
    /\ call.language => \A a \in Served : lang_distance(parent) <= lang_distance(a)
    /\ AlphabeticRoles => RolesInOrder

(* Preferences do not empty the list: only an @id that nothing contains,   *)
(* or an AdaptationSet without Representations, leaves a stream out.       *)
SomethingSelected == pc = "ok" => (chosen = << >> <=> ~\E c \in offered : Wanted(c))

(* The Representation is the best by each preference in turn, among those  *)
(* that are like it by the preferences before.                             *)
Nearer(c, d, attribute, want) ==
  want # Absent =>
    Distance(Repr(c)[attribute], want) <= Distance(Repr(d)[attribute], want)
Alike(c, d, attribute, want) == want = Absent \/ Repr(c)[attribute] = Repr(d)[attribute]

(* c is of lower quality than d; an unknown bandwidth is lower than any.   *)
Worse(c, d, S) ==
  IF Ranked(S) THEN Ranking(c) > Ranking(d)
  ELSE /\ Repr(d).bandwidth # Absent
       /\ Repr(c).bandwidth = Absent \/ Repr(c).bandwidth < Repr(d).bandwidth
Fits(c, S) ==
  LET known == {d \in S : Ranked(S) \/ Repr(d).bandwidth # Absent}
  IN  /\ call.quality = "highest" => ~\E d \in S : Worse(c, d, S)
      /\ call.quality = "lowest" =>
           (known # {} => c \in known) /\ ~\E d \in known : Worse(d, c, S)
      /\ call.quality = "intermediate" /\ known = S =>
           /\ 2 * Cardinality({d \in S : Worse(d, c, S)}) <= Cardinality(S)
           /\ 2 * Cardinality({d \in S : Worse(c, d, S)}) <= Cardinality(S)

BestRepresentation ==
  Selected /\ call.kind # "subs" =>
    LET video == call.kind = "video"
        Suit  == {c \in offered : Wanted(c)}
        Wide  == {c \in Suit : video => Alike(c, chosen, "width", call.width)}
        High  == {c \in Wide : video => Alike(c, chosen, "height", call.height)}
        Coded == {c \in High : CodecPlace(c) < Farthest}
        Kin   == {c \in High : video /\ call.codecs # << >> => Family(c) = Family(chosen)}
    IN  /\ video => /\ \A c \in Suit : Nearer(chosen, c, "width", call.width)
                    /\ \A c \in Wide : Nearer(chosen, c, "height", call.height)
                    /\ \A c \in Coded : \E d \in Kin : CodecPlace(d) <= CodecPlace(c)
        /\ ~video \/ call.codecs = << >> \/ Coded # {} => Fits(chosen, Kin)

(* No stream is fetched under two kinds if all that its AdaptationSet says *)
(* is about one medium, but for subtitles in a file with a MIME type of    *)
(* video/ whose codec is not given beside it.                              *)
ServedOnce ==
  Selected /\ DistinctReprs /\ OneMedium(Set(parent)) =>
    \A kind \in {"audio", "video", "subs"} \ {call.kind} :
      IsOfKind(kind, Set(parent)) =>
        /\ {kind, call.kind} = {"video", "subs"}
        /\ \/ Set(parent).mime = "video"
           \/ \E i \in DOMAIN Set(parent).representations :
                Set(parent).representations[i].mime = "video"
                  /\ Set(parent).representations[i].codecs = << >>
=============================================================================
