# Verification of dash-mpd-rs

TLA+ models of the downloader of `dash-mpd-rs` (crate `dash-mpd`, sources in
`src/src/`), TLC configurations that check them on small instances, and TLAPS
proofs, for every value of the constants, about all of it: the request of the
manifest and the planning, the loop that fetches a stream with all its requests,
the whole download, the helper programs and the subtitles. Line numbers refer to `src/src/fetch.rs` unless another file is
named.

A download is one async task. `fetch_mpd` (4605–5090) gets the manifest, resolves
its remote elements, plans the fragments of every period, and then, period by
period, fetches the streams, decrypts them, muxes them into a container, adds
subtitles, and joins the periods. Nothing runs concurrently inside the task; what
makes it hard is everything that can fail, be retried, or be left half done:
requests, bodies, files, a dozen helper programs, and a manifest that may be
anything.

## 1. Inventory

| Component | State it keeps | Operations | Hard behaviour | What makes it correct |
|---|---|---|---|---|
| Fragment request: `fetch_fragment` (3892–4015) | temporary file of the attempt, saved copy | send, retry with backoff (transient errors only), check the content type, stream the body in chunks | body breaks off after part of it was written to two files; the saved copy is dropped without a flush; wrong type is an empty success | only whole bodies are handed on; a saved copy lacks the last chunk at most |
| Stream loop: `fetch_period_audio` (4020), `fetch_period_video` (4167) | position, attempts, `DownloadState` (3878: period and segment counters, error count), stream file | fetch, retry, give up, abort, embedded `data:` URLs | two nested retry loops; one error count for the whole download | order, no doubles, nothing lost unnoticed or for free |
| Decryption (4113–4152, 4251–4284; `decryption.rs`) | input, output, key file | five helper programs, two in containers, replace the encrypted file | exit status is not believed; delete then rename | the stream survives, failures leave the encrypted file |
| Muxing (`ffmpeg.rs` 936–1151) | preference list, temporary files, output | try muxers in turn, copy the result to the output | a muxer fails half way or has temporary files | success is whole, failure leaves the output alone |
| Concatenation (`ffmpeg.rs` 1242–1651) | preference list, first file | try helpers in turn, each writes the first file in place | a failed helper spoils the next one's input | the joined file has every period in order |
| Download: `fetch_mpd` (4683–5070) | counter of periods, list of outputs, paths, progress | plan, skip, fetch, mux, merge, clean up, concatenate, return | files shared by periods, counter width, skipped periods, helpers that fail and are only logged | no period overwritten, missing or out of order; files of streams removed |
| XLink: `resolve_xlink_references` (2114), `parse_resolving_xlinks` (2236) | the document | four rounds of replacement | nested and looping links, insertion while walking | the right elements, an end |
| Addressing: `do_period_audio` (2425), `_video` (2884), `_subtitles` (3371) | attributes in force, fragment list | six addressing modes, attributes on three levels | overlays by hand in six places | innermost attribute counts; segments cover the period |
| `SegmentTimeline` (2705–2785, 3194–3265, 3695–3755) | time, number, count | expand `S` elements, repeats, limits | open repeats, forced duration, `@endNumber` in nested loops | the expansion is the timeline; it ends |
| Indexes: `do_segmentbase_indexrange` (2273), `sidx.rs` | fragment list | request and parse a `sidx`, plan ranges, fall back | list built before the parse succeeded; server ignores ranges; `first_offset` | ranges follow one another up to the end that the code computes; how much is missed |
| Subtitles (3417–3505, 4298–4538, 4867–4973; `stpp.rs`, `vtt.rs`) | collected document, temporary file, sidecars | collect, merge, convert, save, mux | one attempt per fragment, names shared by periods | merged document, bounded loss, own subtitles only |
| Manifest request, `Location`, stylesheets, base URLs (2000–2112, 4541–4756) | the manifest, `redirected_url`, base URLs | fetch with retries, follow one `Location`, resolve links, transform, merge `BaseURL` elements of four levels | `redirected_url` is a field that every request sets; stylesheets run through temporary files; queries are kept or replaced | one manifest in force: links resolved where it was found, every stylesheet applied; streams have the URL that the references lead to |
| Selection (1262–1649, 2465–2500, 2884–2960, 3371–3417) | candidates | kinds of AdaptationSets (`lib.rs` 2257–2420), preferences for language and role, filters by id, size, codec, quality, search for the parent | six filters in a row, defaults for missing attributes, bisection of an unsorted list, search by equality | the preferred AdaptationSet, the best Representation, never nothing, no stream served twice |
| Bandwidth limiter, `sleep_between_requests` (3978–3990) | a leaky bucket | delays | none: it decides nothing but when | not modelled |
| Data model (rest of `lib.rs`), `media.rs`, `scte35.rs` | none | parse and compare attributes | none | not modelled |
| `libav.rs`, `sandbox.rs`, examples | none | library calls, one kernel call, callers | outside the library's control | not modelled |

How they interact: the task calls one component after the other (`.await`), and
they share `DownloadState`, the list of `PeriodDownloads` (1104), and files. The
helper programs and the HTTP servers are the environment. Observers of progress
are called back and cannot influence the download.

## 2. Modules

```
OrderedDelivery            what the stream loop promises (abstract)
      ^  implemented by (KeepsPromise, proved)
StreamFetch                the loop, an attempt is one step
      ^  implemented by (ImplementsStream, proved)
StreamHttp                 StreamFetch + FragmentFetch: every request a step
Download                   whole download; a stream is OrderedDelivery's
Helpers  = StreamDecrypt | MuxHelpers | ConcatHelpers | Subtitles
Planning = ManifestFetch | XLink | Selection (with AdaptationKinds)
         | Addressing | SegmentTimeline | IndexRange

RecursionLemmas            what recursive functions compute
StreamFetchProofs          <- StreamHttpProofs
DownloadProofs             <- DownloadSumProofs
HelpersProofs, PlanningProofs, SelectionProofs
```

* **`OrderedDelivery`** is the contract of a stream: fragments are settled in
  manifest order, each is delivered, lost or discarded, a loss costs errors from a
  budget that all streams of the download share.
* **`StreamFetch`** has one action per branch of the retry loop. `pos`, `attempt`,
  `file`, `have`, `download_errors`, `segment_counter` are the variables of the code
  (`have_audio`/`have_video`); `lost` and `rejected` are history. Audio and video
  differ in media type only and share the module. `Call` is the next stream of the
  same download, so that the error count is carried over.
* **`FragmentFetch`** is the inside of one attempt, and **`StreamHttp`** composes the
  two: `TakeOk` and `TakeError` are the moment the loop takes the result. The temporary
  file of an attempt is synchronised before it is returned (4006) and has all its chunks.
  The saved copy (3950–3961, 3978–3982) is a file of tokio, whose `write_all` hands a chunk
  to another thread and returns: the next one waits for it and returns its error
  (`Chunk`, `CopyError`); the last one is waited for by nobody, and when the copy is dropped
  it is done, has failed, or is still under way (`Dropped`). Then it ends at any time
  (`LateWrite`), perhaps after the next attempt has truncated the file. `copied` and `taken`
  are history: what was accepted while a copy was made, and the names used by earlier streams.
* **`Download`** is `fetch_mpd` from the loop over the periods on. The planning of a
  stream is abstracted to its number of fragments, and a fragment to delivered,
  discarded or lost, as in `OrderedDelivery`, whose operators it instantiates. Files
  are a function from paths to contents; the width of the `u8` period counter is
  `CounterModulus`, and `checked` says if the build has overflow checks. `left` has the reasons
  why temporary files that the muxers make for themselves are still there: mkvmerge failed
  (`ffmpeg.rs` 785–831; for subtitles 4925–4970, where the download goes on), one could not be
  deleted, or files are persisted; the option `mkvmerge` says whether mkvmerge is among the
  programs that may be run.
* **`StreamDecrypt`**, **`MuxHelpers`**, **`ConcatHelpers`**: a helper program leaves
  nothing, an empty file, a part or the whole, with any exit status.
* **`Subtitles`**: sidecars are fetched while planning, fragments afterwards; cues
  and styles are values, an STPP document is a sequence of both. Module **`Helpers`** is
  the choice of one of these four calls (they follow one another in a download and
  share files only by way of `Download`), so that one run checks them.
* **`ManifestFetch`** is `fetch_mpd` up to the plans. A URL is a place (server, directories,
  file) and a query; what is found at a place is a record of what the code looks at; a
  stylesheet takes something away from the manifest. Each of `Answer`, `ReadFile`,
  `ResolveLinks`, the stylesheets' steps and `FollowLocation` is a stretch of
  `fetch_mpd_http` or `fetch_mpd` between two things that may fail; `PlanAudio` and its
  like only compute the base URLs, the subject of the modules below being what follows.
* **`AdaptationKinds`** has the predicates of `lib.rs` that tell audio, video and subtitles,
  over labels that stand for the substrings they look for. **`Selection`** has one action
  per filter, in the order of the code. The vectors of candidates are always in the order of
  the manifest and are sets of positions; where the code takes one of several, the order
  decides: `min_by_key` returns the first and `max_by_key` the last (`MinByKey`, `MaxByKey`).
* **`XLink`**, **`Addressing`**, **`SegmentTimeline`**, **`IndexRange`**: the manifest
  is a record of the attributes that the code looks at (and of the `first_offset` of an
  index, which it reads and does not use); fragments are the element, number, time or octet
  range they come from. **`Planning`** is the choice of one of
  the six calls, which hand each other a manifest or a list and nothing else.

In `Helpers` and `Planning` variables of one name (`pc`, `container`, `fault`, ...)
serve whichever component is called, and the others hold `Unused`. Every property
is the component's own, guarded by `procedure`.

The mutants beside some definitions (`X_Y` is a plausible bug in `X`) show that a
property notices it; they are not used in any specification.

## 3. Runs

Every deadlock check is off: the procedures return and then nothing is left to do.

| Run | Specification | What it shows |
|---|---|---|
| `Stream` | `StreamHttp` | 1.22 million states. Types, `InOrderOnce`, `Accounted`, `LossBudget`, `AbortIffOverBudget`, `WholeFragments`, `SavedButLast`; refinement of `StreamFetch` and `OrderedDelivery`; every call returns |
| `Download` | `Download` | 581 thousand states. Outputs intact and joined in order, no period missing, temporary files of streams gone and those of muxers but mkvmerge's, budget shared, all fragments tried, progress of a single period monotone, an end |
| `Helpers` | `Helpers` | 32 thousand states. All helpers and all failures: `StreamSurvives`, `MuxedIsWhole`, `OnlyMkvmergeLeaks`, `WholeUnlessSpoilt`; subtitles in all formats, two periods: `MergedDocument`, `MissingBounded`, `OwnSubtitles` |
| `Planning` | `Planning` | 334 thousand states. The manifest in force and the base URLs (`DocumentInForce`, `BaseResolved`), links (`SameElements`), selection (`PreferredAdaptation`, `SomethingSelected`, `BestRepresentation`, `ServedOnce`), addressing (`MostSpecific`, `CoversPeriod`), timelines (`FollowsTimeline`, `ForcedIsShortest`), indexes (`Tiles`, `OnlyOffsetMissed`), and that each ends |

Selection, addressing and indexes compute from their input without a choice: for them the
run is an evaluation over all inputs of the instance against a definition that does not
follow the code's way.

Bounds, and why they are enough:

* `Stream`: two calls (a second stream must see the errors of the first), plans of two
  and three fragments with fragments of another period before and between, embedded and
  refused `data:` URLs; 2 attempts and a budget of 2, so that a fragment can be lost and
  the budget exceeded in the next stream; all three retries of the backoff; bodies of
  two chunks, so that one can break off in the middle, and one late write of a dropped copy
  at a time (`MaxLate`), which is enough for it to meet the next attempt at the same file. Attempts and budget are
  parameters; the code's defaults are 10 and 30.
* `Download`: manifests of one, two and three periods with and without audio, subtitles
  and a skipped period, which give every order of skipping, overwriting and joining, with
  and without mkvmerge;
  255 periods, the longest that the counter stands, and 256.
* `Helpers`: every helper, preference lists in default and other orders and with names of
  no helper; three periods to join, so that leaving out the middle, first or last differs.
* `Planning`, requests: three servers and a disk, each manifest with or without a
  `Location` (absolute, relative, malformed after a good one, a file), redirections that
  add a query, no, one or two stylesheets of which the second changes what the first left,
  live and static; base references relative, absolute and malformed on each of four levels.
  One retry of the request, since a second one meets the same state.
* `Planning`, selection: three AdaptationSets in two languages and four roles; three
  Representations with every pattern of missing `@bandwidth` and `@qualityRanking`; two sets
  of two pictures each in different sizes and codecs, so that each filter has several left
  and the filter after it differs; all ways to label a kind.
* `Planning`, the rest: nested, looping, empty and failing links in two places; templates on three
  levels, lists on two; period lengths below, at and above multiples of the segment
  length; timelines of three elements with gaps, overlaps and repeats; index boxes that
  are cut short, too long, or without header, with and without a `first_offset`, and an index
  range that ends before it starts. `OverflowChecks` is `FALSE`, as in a release build, where
  `e - s + 1` (2344) wraps instead of panicking and an empty body can match.
* `Helpers`, subtitles: two fragments that share a cue and a style; every odd content between them;
  an error budget of 1 and 2 requests per sidecar (5 in the code).

### Disagreements between code and text

A run that expects a violation checks one sentence of the repository against the code:

| Run | Property | Sentence | What the code does |
|---|---|---|---|
| `DownloadPanic` | `NoPanic` | `assert!(period > 0)`, 1185 | with 256 periods the `u8` counter wraps to 0 (4701) |
| `DownloadReturned` | `ReturnedPathExists` | "We already arranged to write directly to the requested output_path", 5023 | a first period that is skipped leaves the only output at `foo-p2.mp4` |
| `ConcatSpoilt` | `ConcatenatedIsWhole` | "Merge all media files named by paths into the file named by the first element of the vector", `ffmpeg.rs` 1577 | a second helper starts from what a failed one left |
| `DecryptKeep` | `CleanRunAccepted` | "both inpath and outpath are created in the same system temporary directory", `decryption.rs` 148 | not for `keep_audio` and `keep_video` |
| `OpenRepeat` | `OpenRepeatStops` | "repeats until the start of the next S element, the end of the Period ...", 2758 | audio and video repeats do not stop there |
| `RolePreference` | `RolesInOrder` | "If `role_preference` is ["main", "alternate"] and one of the AdaptationSets is annotated "main", then we will only download that AdaptationSet", 438 | the list is bisected (1302) though it is not sorted: in the default list `main` is not found, and `alternate` is taken |
| `SubsTemplate` | `SubsInherit` | "SegmentTemplate as a direct child of an Adaptation node. This can specify some common attribute values (media, timescale, duration, startNumber)", 3512 | for subtitles only the Representation's template is read (3516): with a timescale on the AdaptationSet too few segments are planned |
| `IndexFallback` | `FallsBackToOneChunk` | "just download the whole segment as a single chunk", 2410 | the leading octets stay in the plan before the whole file |

Further disagreements that the models show and for which no run is kept:

* a transient error that outlives the backoff is counted (4092), though the doc of
  `max_error_count` says transient errors do not count (674);
* saved fragments are named by the last segment of the URL path only (3951; 528), and their
  file is dropped without a flush (3978), so that the last chunk of a copy may be missing
  from it without an error;
* what mkvmerge wrote before it failed stays in the temporary directory (4925, `ffmpeg.rs`
  785), also when the download goes on and returns `Ok`;
* the `first_offset` of a `sidx` is read (`sidx.rs` 58) and not used (110): no range planned
  is that of a subsegment then ("prepare to save each referenced segment chunk", 2357), and as
  many octets at the end of the file are missed, which `OnlyOffsetMissed` says exactly;
* several elements that replace one link come out in reverse order, periods too (2222;
  `tests/xlink.rs` 268), which is why `SameElements` counts them only;
* after 256 periods, numbers of periods are used again and outputs overwritten (4701; 4690);
* progress goes back from 99 when the second period starts (4856;
  `tests/progress_observer.rs` 78);
* an open repeat of subtitles goes one segment beyond a period that ends with a segment
  (3731; 3719);
* an inherited `@duration` is not divided by the timescale (2808; 2452), a `@duration` of
  zero is not refused (2815; 2817), the first live number ignores the start of the period
  (2831; 2828), a subtitle `SegmentList` without a template is skipped (3546;
  `README.md` 95);
* an `Initialization` of an indexed file is fetched after the segments (2386; 2294), although
  the first fragment, from octet 0 to the end of the index, may have it already; without a
  `@range` it is the whole file once more;
* four rounds of links, not five (2259; 2257), and a failed link ends the download
  (2174; `tests/xlink.rs` 7);
* a subtitle body that breaks off ends the download whatever the count (4378; 671), the
  `.ttml` of one period overwrites that of another (4507; `README.md` 79), and an `.srt` of
  an earlier download is merged (4920; 4910).

What follows was met while the code was read for these models; it is the code's behaviour,
and where the models include it they say so:

* plain `BaseURL` addressing merges the Representation's `BaseURL` a second time (2498 and
  2863; 2976 and 3347), and the AdaptationSet's for a `SegmentURL` without `@media` (2619;
  3094): `dir/file.mp4` becomes `dir/dir/file.mp4`, though `CHANGELOG.md` 285 speaks of a fix
  for it. `BaseResolved` therefore speaks of references without a directory;
* an AdaptationSet of type `video/mp4` whose codec is `wvtt` or `stpp` counts as video and as
  subtitles (`lib.rs` 2317–2319): the exception in `ServedOnce`;
* the parent of a Representation is found by equality of contents (2483; `lib.rs` 1192), so
  that two equal Representations have the first AdaptationSet as parent: the premise
  `DistinctReprs`;
* a preferred codec keeps its whole family, and a preference that nothing matches keeps the
  family of the first Representation only (1427–1465);
* `@width` and `@height` count on the Representation only; a missing `@lang` is at distance
  100, nearer than some languages; the preferred language of audio is applied to video too;
* a `Location` that is relative or a file fails, that of a manifest already relocated is
  ignored (4606–4660); a relative link is asked for without its own query (2152);
* the frame rates of `media.rs` (59) are quotients: one of 0/0 equals every other.

## 4. Fairness

One assumption, weak fairness of the steps of the task (`HttpStep` in `StreamHttp`, `Next`
elsewhere): the runtime polls the future until it returns, every request has the client's
timeout (30 s for the default client, 979 and 1002; a client of the caller should have one), and helper programs are assumed to end: the code waits for
them without a limit. Nothing is assumed of the outcome, so a server may fail every
request and a helper every run. The call of the next stream is not part of the fair
action. Liveness is checked where a loop has no evident bound: retries (`HttpCallReturns`),
periods (`DownloadEnds`), and requests, relocations, links and open repeats (`PlanningEnds`,
for timelines under the premise that a limit is there).

## 5. Proofs

Eight modules hold proofs. `RecursionLemmas` has lemmas only; the others EXTEND the module
they are about. Every safety invariant and every action property that a passing run checks is
a theorem, for every value of the constants.

| Module | Theorem | Statement |
|---|---|---|
| `StreamFetchProofs` | `TypeCorrect` | `Spec => []TypeOK` |
| | `LossIsBounded` | `Spec => []LossBudget`: fragments given up times attempts is at most the error count |
| | `AbortIsExact` | `Spec => []AbortIffOverBudget` |
| | `FileIsOrdered` | `Spec => []InOrderOnce` |
| | `NothingUnnoticed` | `Spec => []Accounted` |
| | `ErrorsAccumulate` | `Spec => ErrorsOnlyGrow`: no step takes an error back or counts two |
| | `ImplementsPromise` | `Spec => KeepsPromise`: the loop implements `OrderedDelivery` |
| `StreamHttpProofs` | `RequestsImplementStream` | `HttpSpec => ImplementsStream`: the loop with all its requests implements `StreamFetch` |
| | `RequestsKeepPromise` | so that what is proved of `StreamFetch` holds of it: `LossBudget`, `InOrderOnce`, `KeepsPromise` |
| | `HttpTypeCorrect` | `HttpSpec => []HttpTypeOK` |
| | `OnlyWholeFragments` | `HttpSpec => []WholeFragments` |
| | `CopiesLackTheLast` | `HttpSpec => []SavedButLast`: a saved copy of a delivered fragment lacks the last chunk at most |
| `DownloadProofs` | `BudgetIsShared` | `Spec => []BudgetShared` |
| | `TempFilesAreRemoved` | `Spec => []TempFilesRemoved`: of the streams all; of the muxers those not made by mkvmerge |
| | `OutputsAreIntact` | `Spec => []OutputsIntact`, assuming `Countable` |
| | `NoPeriodIsMissing` | `Spec => []NoPeriodMissing` |
| `DownloadSumProofs` | `EveryFragmentIsTried` | `Spec => []EveryFragmentTried` |
| | `ProgressIsMonotone` | `Spec => OnePeriodMonotone` |
| | `DownloadTypes` | `Spec => []TypeOK` |
| | `PeriodsAreJoined` | `Spec => []JoinedInOrder`, assuming `Countable` |
| `HelpersProofs` | `StreamIsSafe` | `Spec => []StreamSurvives` (decryption) |
| | `MuxersAreTidy` | `Spec => []MuxedIsWhole` |
| | `OnlyMkvmergeMayLeak` | `Spec => []OnlyMkvmergeLeaks` |
| | `LaterPeriodsSurvive` | `Spec => []WholeUnlessSpoilt` (concatenation) |
| | `SubtitlesMissBounded` | `Spec => []MissingBounded` |
| | `SubtitlesAreOwn` | `Spec => []OwnSubtitles` |
| | `DocumentsAreMerged` | `Spec => []MergedDocument` |
| `PlanningProofs` | `ManifestInForce` | `Spec => []DocumentInForce` (requests, relocation, stylesheets) |
| | `BaseURLsAreResolved` | `Spec => []BaseResolved` |
| | `LinksKeepElements` | `Spec => []SameElements` |
| | `InnermostAttributesCount` | `Spec => []MostSpecific` |
| | `PeriodIsCovered` | `Spec => []CoversPeriod` |
| | `TimelineIsFollowed` | `Spec => []FollowsTimeline` |
| | `ForcedDurationIsShortest` | `Spec => []ForcedIsShortest` |
| | `FragmentsTile` | `Spec => []Tiles` |
| | `OnlyOffsetIsMissed` | `Spec => []OnlyOffsetMissed`: of an indexed file the last `first_offset` octets are missed, and no others |
| `SelectionProofs` | `PreferencesAreMet` | `Spec => []PreferredAdaptation` |
| | `StreamsAreFound` | `Spec => []SomethingSelected` |
| | `BestIsChosen` | `Spec => []BestRepresentation` |
| | `StreamsAreServedOnce` | `Spec => []ServedOnce` |

In `Helpers` and `Planning` a theorem speaks of the calls of one procedure; the other
disjuncts of `Next` do not change `procedure`.

### Assumptions

Each theorem rests on the assumption of its component (`StreamFetchAssumption`,
`StreamHttpAssumption`, `DownloadAssumption`, `ManifestFetchAssumption`, `XLinkAssumption`,
`SelectionAssumption`, `AddressingAssumption`, `SegmentTimelineAssumption`,
`IndexRangeAssumption`, `SubtitlesAssumption`, `ConcatAssumption`), which types the constants.
A theorem about `Helpers` or `Planning` has that of its component as an ASSUME of its own, so
that it needs no other. TLC evaluates all of them in the runs (`MCPlanning` names them for the
components of `Planning`). What goes beyond a type:

* `Countable`: a manifest has fewer periods than the period counter has values. It is
  necessary: with more, the number after the last is 0, which the assertion refuses (the run
  `DownloadPanic`) unless that period is skipped, and then the next ones have the paths of the
  first ones.
* `SelectionAssumption` takes a bandwidth that is given to be positive and below 10^9 bit/s,
  and a preferred codec not to be the empty string. 10^9 is what the code puts for a missing
  bandwidth when it looks for a low one (1526), 0 when it looks for a high one (1541): beyond
  them a Representation of unknown bandwidth would be preferred to a known one, and
  `BestRepresentation` would be false.
* Premises that the properties state themselves: equal Representations do not occur
  (`DistinctReprs`), role preferences are in alphabetical order where the order of roles is
  the subject (`AlphabeticRoles`; the run `RolePreference` shows what happens otherwise), an
  AdaptationSet speaks of one medium (`OneMedium`), a timeline has no open repeats (`Closed`;
  the run `OpenRepeat` shows one).

### Arguments

* **Stream.** `IInv` has four parts. `TypeOK` with `Control` (the fragment tried belongs to the
  period, `pc` and `fault` agree, an aborted call and only that has more errors than the
  limit). `LossInv`: losses are paid for, counting the attempts at the fragment in hand;
  `LossBudget` alone is not inductive, since `GiveUp` takes a loss for errors counted before.
  `OrderInv`: the positions before `pos` are exactly those delivered, lost or rejected, and the
  file is increasing; `Accounted` speaks of the end only and `InOrderOnce` alone would not
  exclude appending the fragment in hand once more. `PromiseStep` maps each action to one of
  `OrderedDelivery` or a stutter, using `LossInv` for the budget of `Lose`.
* **Requests.** A step of `StreamHttp` leaves the variables of `StreamFetch` alone or is the
  step in which the loop takes the result, which gives the refinement. `AttemptInv` says what
  the temporary file and the saved copy hold in the middle of a body (its beginning, and all
  of it or nothing when it is handed on); `WholeFragments` follows because only `TakeOk`
  appends. `CopiedInv` adds that a copy that was accepted belongs to an earlier position, so
  that the attempt in hand writes to it only if the names are shared. Each chunk of a copy is
  waited for by the next, so that all but the last have landed when the body ends, and a late
  write of a failed attempt at the same fragment brings the same chunk to the same place. That
  writes land late at all, and that `sync_all` waits for them, is taken from how tokio's
  files work, outside this repository.
* **Download.** `BudgetInv` is inductive alone. `PlanInv` types the plan and the position in it.
  `TempInv`: as long as nothing has failed the temporary files are those of the period in hand,
  and `CleanUp` deletes all of that period's. `LeftInv`: the reasons why a muxer's files are
  there are those that the options allow. `OutputsAreIntact` needs to know where media is on
  its way: `CounterInv` (planned periods have different numbers), `StreamsInv` (the file of a
  stream that was fetched holds what was fetched, also in files that several periods share,
  because each is truncated first), `OutputInv` (the output of the period in hand, after the
  muxer, holds what is recorded). `MissingInv` counts the periods
  that are long enough and relates them to the plan, and the plan to the outputs.
* **Sums of a download.** `CountInv`: `segment_counter` is the fragments of the periods that are
  finished, of the streams of this period that are, and those settled in the stream in hand;
  `EveryFragmentTried` is the case at the end. Progress is computed from one total while audio
  is fetched (2 more than there are fragments) and from another for video: `ProgressInv`
  bounds what was reported by the total in hand, and a smaller total makes the quotient larger
  (`CeilDiv`). `FilesInv`: which outputs may exist, and that they are sequences; `RangeInv`: the
  percentage. `ContentsAreJoined` and `RestIsJoined`: the content of the joined file is the join
  of what each output held.
* **Helpers.** `DecryptInv`: until the files are exchanged the stream's file is as it was, and
  they are only exchanged when the decrypted one holds media; the helpers that accept an empty
  output are exempt, as in `StreamSurvives`. `MuxInv`: what waits to be copied is whole or VLC's.
  `ConcatInv`: until a helper has written, the first file and the copy of it are the first
  period; `SuffixOfConcat` does the rest.
* **Subtitles.** `SubtitleInv`: every fragment that was taken was
  delivered or has cost an error. `OwnInv`: what is saved of a period is
  its temporary file, nothing is recorded of later periods, and a file with the name of a format
  holds what the last period of that format brought. `MergeInv`: the
  paragraphs collected are the cues of the STPP fragments delivered so far, one after the other,
  and the styles are theirs, each once (`StylesAdded`, `OneMoreDelivered`).
* **Manifest.** `Control` and `InForce`: at each stage from the answer on, `redirected_url`
  is where the manifest came from and the manifest is that one without what the stylesheets so
  far take away; a second stylesheet takes away what both do (`WithoutTwice`), none changes
  the links (`WithoutKeepsLinks`), and a relocation starts over. `BaseInv`: on each level the
  base is what the references down to it mean, from the place of the manifest in force.
* **Links.** The code inserts what a link brings in front of the elements that follow, in an order
  of its own, and walks on; `SameElements` counts every element. `LinksInv` says it for all
  weights at once: however elements are weighed by natural numbers, what precedes the place in
  hand, and what the elements after it mean, weigh together what the document of this round
  does. Sums do not see the order, so that the reversed insertion is covered; weighing one element
  1 and the others 0 counts it (`CountedByWeight`), and weighing all 1 gives the length. Counting
  alone is not inductive, since a link stands for several elements.
* **Selection.** `SelectInv`: after each filter the candidates are a fixed composition of filters
  of what the call offers, what is chosen is one of them, and the parent is the first
  AdaptationSet with an equal Representation. The properties are then facts about the filters: minima
  are attained and least, a median has at most half of the values on each side, the nearest
  width is kept with all that have it. `SearchFinds`: both versions of the library's bisection
  that the model allows find a role in a sorted list, by induction on the part still searched.
* **Addressing.** `AddressInv`: the attributes in force are bare, then those of the outer levels,
  then those of all three, and the fragments those of the numbers from the first on
  (`ExpandedAfter`). `CoversPeriod` follows from the rounding of one quotient. Its premise is
  that the template in force has a `@duration` of its own (an inherited one is taken as
  seconds, 2808) and that subtitles need no `@media` or `@timescale` from an element above:
  they would not get them, which the run `SubsTemplate` shows. The lengths it compares are
  those of the innermost attributes, not those the code has computed.
* **Timelines.** `TimelineInv`: time, number and count are those at which the element in hand
  starts and the repeats so far (`Carried`), and the k-th fragment planned is the k-th of the
  definition (`Expanded`). `ForcedInv`: the time elapsed is what the fragments planned last
  (`Lasting`), and it was too short before the last of them.
* **Indexes.** `IndexInv`: the list is the ranges of the entries parsed so far, each starting
  where the one before ends; if the index is of no use, the plan has the whole file in it.
  `Ends` grows, so that an octet is missed exactly if it comes after the last of them, while
  the file ends `first_offset` octets later (ISO/IEC 14496-12). `Tiles` says where the ranges
  stop, and that an Initialization comes after them.

What a recursive function `f[k \in S] == e` computes is not immediate: it stands for a CHOOSE
of a function that satisfies its equation. `RecursionLemmas` shows for running sums and running
concatenations that one exists, and what it returns; the induction is by least counterexample
(`LeastNumber` from `WFMin`), since the induction theorems of the library take an operator as a
parameter.

Only model-checked: liveness (`HttpCallReturns`, `DownloadEnds`, `PlanningEnds`), which like
`ENABLED` is out of the prover's reach, and the runs that show a violation.

### What the proofs changed in the models

Attempts that failed showed properties that were wrong, though true on the first instances:
`OwnSubtitles` did not allow for a period whose document is empty; `ServedOnce` is false for
labels that contradict each other and for a Representation of MIME type `video/` whose codec
is not given, now its premise and its exception. Others were restated so that they could be
reasoned about and still say the same: the candidates of `Selection` as sets of positions,
`FollowsTimeline` by running counts, the elements of `XLink` counted by their positions, the
styles of `MergedDocument` as those added so far, in the order they came.

## 6. Abstractions and what is left out

* Octets of media: a fragment is its position, a body its chunks.
* Logging, wording, command lines, headers, authentication, `sleep_between_requests`, and
  the bandwidth limiter except that it may refuse a chunk larger than its burst.
* `f64`: times and durations are integers; rounding of a quotient is modelled, that of sums is not.
* Output paths without extension, for which later periods go to randomly named files (1195).
* The container comparison of `media.rs`: whether outputs may be joined is a free choice.
* Regions of STPP documents (they follow the code of styles).
* Recording metadata in extended attributes.
* URLs are a place and a query; joining a reference replaces the last name of the place, and
  `..` is not modelled. In `ManifestFetch` the links of a manifest are one round; `XLink` has
  the rounds, for the elements of one level: a link inside an element that is itself replaced
  is collected with it (2121) and still looked at after its parent has been removed (2227);
  that is not modelled.
* Stylesheets take away a `Location`, the liveness or the top `BaseURL`; what else they do is
  not looked at afterwards.
* The edit distance of languages is a number that the input gives; substrings of labels are
  members of small sets: `wvtt` stands for all subtitle formats compared as a whole, `mp4a`
  for all audio codecs.
* What `ffprobe` answers is a free choice.

Not modelled: SCTE-35 and the data model (structures and their serialization, no control);
`libav.rs` (calls of a C library behind a feature flag); `sandbox.rs` (one call of the
kernel); progress messages; the examples.

## 7. Plan

Done in this order: `StreamFetch` with `OrderedDelivery` and its proofs, the requests,
`Download`, helper programs, planning, subtitles; then the request of the manifest and the
selection of streams, and the proofs about requests, downloads, helpers and manifests;
then the proofs about sums and joins over periods, subtitles, and all of planning, so that
every safety invariant that a run checks is a theorem. Next:

1. A module `DownloadStreams` in which the streams of `Download` are those of `StreamFetch`
   instead of its promise. Both directions are proved separately now: `StreamFetch` implements
   `OrderedDelivery`, and `Download` instantiates its operators.
2. Output paths without extension, for which `output_path_for_period` (1195) answers
   differently every time, and file names that are not Unicode.
3. `media.rs` in front of the concatenation instead of a free choice, and the bandwidth
   limiter with the sleep between requests.
