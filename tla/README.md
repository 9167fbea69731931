# Verification of SiloObjectAudio

TLA+ models of the decoder in `src/`, model-checked with TLC, with theorems checked by TLAPS.
Source lines are given as `file:line` of `src/src/` unless a path says otherwise; "the header" is
`src/include/truehd_atmos.h`.

## The system

SiloObjectAudio decodes Dolby TrueHD bitstreams behind a C handle. The caller pushes bytes in any
pieces, each with a timestamp, and pulls blocks: PCM of one access unit (AU), the speakers of its
channels, its place in the input, and the object metadata (OAMD) that starts in it. A handle is
used by one thread at a time and nothing is persisted, so there is no concurrency and no crash
recovery. What is hard is the order of things: bytes that arrive in arbitrary pieces, damage, access units
that fail to decode, seeks, presentation switches, configuration changes and metadata that is
due later than the access unit that carried it, each of which may happen while another is being
dealt with.

| component | source | state | operations | model |
|---|---|---|---|---|
| access-unit framer | framer.rs | buffer and cursor, Locked or Seeking with a search position, queue of recovered AUs, substream count, ordinal, estimate flag, averages | `push`, `next` (`check_at`, `seek`, `chain_back`), `reset`, `compact` | `AuFramer`, `AuFramerChunks`; abstract specification `AuLog` |
| push records, pts attribution | engine.rs:166-210 | records of pushes, serials, record and index of the last AU | `push`, `attribute`, `reset` | `PtsAttribution` |
| pull loop and recovery | engine.rs:118-156, 212-362 | waiting for a major sync, signature, description, required presentation, pending flags, counters | `pull`, `configure`, `decode`, `fail`, `restart_decoding`, `set_presentation`, `reset` | `Engine` |
| block assembly, layout identity | engine.rs:364-479 | roles, layout serial | `emit` | `Engine` |
| object metadata schedule | objects.rs | queue of updates, values, layout and warp mode in force | `ingest`, `begin_block`, `clear` | `ObjectSchedule` |
| stream description | stream.rs | none: pure functions | `probe`, `resolve`, `roles`, signature, label tables | `resolve` and `roles` in `Engine`; `probe` as an outcome; tables not modelled |
| C API | lib.rs, the header | `poisoned`, the last error | every exported function | creation, panics, poisoning, reset and rebuild in `Engine`; arguments, getters and pointer lifetimes not modelled |
| C types | types.rs, the header | none | none | counters and selectors in `Engine`; the rest is data |
| verification harness | harness/harness.c | packets and what each begins with, our position events, comparison results, verdict | `load_input`, pass A, matching of events, pass B | `Harness` |
| checksum tool and script, examples, build | harness/checksum.c, harness/verify.sh, examples/, build.sh | none | none | clients and scripts; not modelled |

How they interact. `Engine::push` writes a record and hands the bytes to the framer.
`Engine::pull` loops: it asks the framer for the next AU, copies the framer's damage counter into
its own (and restarts decoding when it moved), attributes the AU to a push, configures parser and
decoder at a major sync, decodes, hands the AU's metadata payloads to the schedule and takes the updates of the
block from it. The truehd crate (parser, decoder, OAMD reader) is a dependency and
external to the repository: the models let it succeed or fail at every AU. The harness is a client
of the C API: it decodes a stream whole and again with a seek in it, and compares both with what
another decoder (truehdd) makes of the stream.

## The modules

**AuFramer** models framer.rs as its caller drives it. A stream is a sequence of *readings*, one
for each byte offset: what the header checks would find if an AU started there. This keeps every
decision of the framer (incomplete, valid, invalid, sync word, chain) and abstracts the bits.
`cursor`, `scan`, `consumed`, `queued` and so on are the fields of `Framer`; `drained` is how many bytes
`compact` has removed, so that indices into the buffer move the way the code's do. `Push` is
`Framer::push` under the limit of `Engine::push`; every way `next` can return is an action
(`NextQueued`, `NextLocked`, `NextStarved`, `SeekNothing`, `SeekUndecided`, `SeekFound`).
`chain_back` is the definition of `Resync`: the AUs on a chain of length fields that leads exactly
onto the major sync, and what becomes of the fragment in front of them.

**AuLog** is what the framer promises: a log of AUs in stream order, contiguous numbers, every
byte between them accounted for and every loss flagged. `ImplementsLog` is the refinement.

**FramerContract** is what the pull loop makes of the framer's replies: whether damage was counted, whether
the AU can be decoded or only counted, whether it is a major sync, and its number. `Engine` uses
its actions; **AuFramerView** puts the caller's view (the counter compared around each call, the
last number and flag it was given) beside `AuFramer`, and `MeetsContract` says that every call of
the framer is one of the contract's actions.

**AuFramerChunks** runs the framer twice over one stream, whole and in pieces, and compares.

**PtsAttribution** models the records of pushes with exact offsets. The framer appears as AuLog
describes it: AUs in order and without overlap, from bytes pushed. `origin` remembers for every byte which push
it came from, and is what the reports are compared with.

**Engine** models the pull loop in the steps Fetch, Configure, Decode, Emit, with `step` keeping
the caller out in between. A `Config` is what a major sync says. The framer's replies are those of
FramerContract. The schedule appears as ScheduleContract has it. A panic no recovery inside the
loop catches (`Panic`, lib.rs:36-56) leaves what the call had done so far and `step = "poisoned"`:
until `Reset`, or `Rebuild` when reset panics as well (lib.rs:115-132), nothing else happens. A
call that panics half way through leaves one of the states between the steps, which is why `Panic` may
follow any of them, or one inside a step: the selector changed and nothing else
(engine.rs:138-142), the presentation of a stream that could not be probed (engine.rs:293-297), or
signature and description of a new stream with the presentation still that of the old one, or not yet
required (engine.rs:302-308). The last is remembered in `torn`. `layout_serial` goes round at
`MaxSerial`. `sample_position` and PCM are left out here. History variables (`cut`, `parsed`, `blind`,
`torn`, `reported`, `previous`) are only read by properties and to bound the run.

**EngineOffsets** puts the length of its input in frames beside `Engine`, step by step, to compare
`input_frame_offset` with.

**ObjectSchedule** models objects.rs with exact frames. A payload arrives (`PayloadArrives`), its updates
are queued one by one (`Schedule`), and the block takes what starts in it (`BeginBlock`).
An element is one value, compared as a whole as `same_values` does. How its fields are read from a
payload (objects.rs:178-295) is not modelled. `signalled` is history: the last warp mode any payload
stated since the last reset.

**ScheduleContract** is what `Engine::emit` relies on of it: the set of layouts waiting and the one
in force, any of the waiting ones starting in a block. `ObjectSchedule!MeetsContract` says that
every step of the schedule is one of the contract's.

**Harness** models harness.c as a whole run: an input is cut into packets (`LoadChunk` for raw
files, `LoadPacket` for demuxed ones), pass A pushes and pulls them (`PushA`, `PullA`, and
`TakeUpdate` for each metadata update of the block), position events are matched
(`MatchBed`, `MatchEvent`), and pass B decodes, resets once and judges what follows (`PullB` with
`Lost`, `JudgeBefore`, `JudgeAfter`). Here the decoder is the environment: a sound one does what
the header promises, which is what the other modules are about; with
`faulty` it garbles its metadata, refuses a push or fails a pull in pass A, which ends the program
(`PushRefused`, `PullFails`), or returns any block after the reset (`AnyBlock`): `frame_count`,
`access_unit_frames`, `input_frame_offset`, number, pts and index are then chosen each for itself, blocks without
frames and AUs of no length included. Samples are abstracted to the AU
they belong to. The reference decode is truehdd's and external: it starts at the first major sync and
drops duplicates. `shown`, `stated` and `deviated` are history. **HarnessStreams** says when a
reference tells of exactly the position changes that a stream states (`ReferenceTells`), as
**AuStreams** says when a stream frames as it was written: facts of the inputs that theorems
need and the runs evaluate.

`MC*` modules define instances. Operators marked *Mutant* are variants of a definition with a
plausible mistake; each property is known to fail for one of them, which shows that the property
depends on the code being as it is.

## The runs

| run | states | what it shows |
|---|---|---|
| `framer` | 79 thousand | indices stay inside the buffer; a search knows whether it began with damage; recovered AUs lead onto a major sync; unflagged ordinals are true; AuLog is implemented; the replies are those the engine relies on; push and pull never both refuse; everything pushed is framed or let go |
| `framer_chunking` | 34 thousand | the pieces the bytes arrive in make no difference |
| `pts_attribution` | 1.3 million | a pts is right or absent, and exact with its index wherever a push has a record of its own |
| `object_schedule` | 2.4 million | updates are delivered on time, in order and once; the snapshot is that of the update in force; the CHANGED marks suffice; layouts move as the engine relies on |
| `engine_recovery` | 1.1 million | discontinuities marked exactly; parser fed from a major sync, one configuration at a time; selection honoured; counters add up; layout serial and roles follow the stream; metadata matches its block; all of it also after panics |
| `harness_verdict` | 42 thousand | what pass A learns of the packets is true however the input was cut; a sound decoder is not failed; a pass means the blocks after the reset were right; the cursor over the events misses none; a renderer that obeys CHANGED is in step until something fails; the harness ends |

Six more runs end in a violation: what a document promises and the code does not do.

| run | the promise | what happens |
|---|---|---|
| `framer_first_damaged` | numbers not flagged as estimates are exact (header:269-272) | a damaged length field in the first AU after a seek is taken for a leading fragment: later numbers are one too small, unflagged |
| `framer_full` | a full buffer means "pull before pushing more" (header:81) | an incomplete AU behind a sync word keeps all bytes; pull wants more data and push refuses it |
| `framer_overhang` | any chunking is accepted (header:12) | a substream directory longer than its AU is judged by whatever bytes happen to be buffered behind it |
| `object_fold` | every update is delivered in its block (header:163) | the 17th and later updates of a block change the snapshot but are not delivered |
| `object_warp` | `warp_mode` is the last value signalled since reset (header:238) | damage, a failed AU, a configuration change or a presentation switch makes it "not signalled" again, without a reset |
| `engine_rate_change` | `input_frame_offset` is the number of input frames before the block (header:260) | AUs counted before a change of the AU length are multiplied by the new length |

### Bounds, and why they are enough

*Framer.* Lengths are scaled: an AU has 2 or 3 bytes, one with a major sync 4, and the constants keep the
order the code's have (`MIN_AU_LEN` ≤ peek ≤ shortest major sync ≤ `MAX_AU_LEN`;
`SCAN_KEEP = MIN_AU_LEN - 1`). Streams have 4 to 8 AUs with two or three major syncs, so damage can fall before,
between and behind them, and a chain has up to three links. Every cut of the stream into pushes
is explored. The streams include every damage to one AU's header, foreign bytes, missing bytes,
and payload that looks like a header or a sync word. There is one seek (the proofs have any number), to one of the streams in
`Seekable`: seeking to each would only repeat what starting with it shows. In every stream of `framer` the first AU's length field is sound
and no fragment in front of the first AU leads onto the chain: the one is the violation
`framer_first_damaged`, the other cannot be told from real AUs by anyone. `AuAlign` is 1, so
that alignment rules nothing out.

*Pts.* Five bytes in any pushes, two records, three timestamps of which one is "none", one seek:
enough for three pushes to share a record, for AUs that straddle, begin in or skip whole pushes,
and for serials to run on across the seek. The theorem has no bounds.

*Objects.* Two elements with two values, two layouts, three updates pending of which a block
delivers two, four updates in all between two clears, positions up to four frames. Payloads
state updates due at once, in this block, at its end and a block later, in both orders and at the
same frame. There is one warp mode, since no property of `object_schedule` tells two apart; `object_warp` has two. The limits 64 and 16 of the code only have to be reached, and are.

*Engine.* Three AUs between two seeks, one seek or presentation switch, a panic at any step before it,
serials up to 1 (so that they go round), two selectors and three
configurations (two object streams that differ in their labels, one of which states another
layout in its metadata; a channel stream of twice the rate with a copy and no presentation 3). Three AUs allow
configuration A, B and A again, with any outcome of probe, parser and decoder at each.

*Harness.* Streams of two to four AUs of two or three bytes: one with moving objects whose reference
times are exact and early, one that is joined before its first major sync, one with an encoder
duplicate, one with two layouts. Raw input is cut into every sequence of pieces of one and four bytes, so that
pieces hold no AU start, one, or two, and begin within an AU; containers into packets of one and
two AUs. The reset comes in the middle or never in time, the resume point in front, in the middle
or close to the end. Two objects and two positions are enough for an event to be another object's or
another position's. The window of 64 frames and the offset of 32 are the code's.

### Fairness

Two runs assume any. `framer`: weak fairness of `next` and of `push`. The header tells the
caller to pull until NEED_MORE_DATA and then push on; nothing obliges it to seek, so `Reset` is
not fair. The streams of that run all end in a sound major sync and AU, since otherwise the framer may rightly wait
for ever, and `MaxPending` leaves room for the longest of them up to there; `framer_full` shows what happens
when it does not. `harness_verdict`: weak fairness of the whole next-state relation, since the
harness is one sequential program that waits for nobody. It claims nothing of a decoder that
returns blocks for ever.

Deadlock is not checked in the framer, pts, object and harness runs, where the input is bounded and ends. It is in
the engine's.

## What is proved

`AuFramerProofs`, for every stream, every cut, any number of seeks and all constants within
`FramerConstants`:

- `TypeCorrect`, `NoSliceOutOfRange`, `DamageIsRemembered`: `Spec => []TypeOK`, `[]InBounds`,
  `[]SearchKnowsDamage`. The inductive invariant is their conjunction. They need each other:
  the search position stays inside the buffer because a search never begins while recovered AUs
  wait (`SearchKnowsDamage`), and the estimate has a divisor because averages are of real AUs (`InBounds`).
- `FramerImplementsLog`: `Spec => ImplementsLog`, from the same invariant, one lemma for each kind
  of reply. `ResyncEffect` states once what the recovery at a major sync does to the offsets.
- `OneOfThemTakes`: `SyncsInReach /\ Spec => []NeverBothRefuse`, for streams that have, in any `MaxPending`
  bytes, a major sync that checks, early enough there to be decided on. `Scanned`: no such sync has
  been searched past. A full buffer holds one, so its search would find it or one before it, decided
  on; and a whole AU at the cursor is valid or not. `framer_full` shows what happens on a stream
  without.

`AuChainProofs`, on top of it:

- `SkipsLead`: `Spec => []SkipsLeadToSync`. `Leading`: from every waiting AU the length field leads to
  the next, and the last ends at a major sync that passes its checks. `HopsFrom` and `ChainStarts` are
  recursive functions, so each is first shown to satisfy its recursion: the one by the least set closed
  under hops, the other by the greatest set whose links lead on. Hops are then a path (`HopsApart`),
  from the start of a chain it ends at the sync (`ChainReaches`), and the paths before and behind that
  start are one (`PathsJoin`); what `compact` and later pushes do moves indices, not offsets.
- `NumbersExact`: `DamageShows /\ Spec => []OrdinalsExact`, for streams in which damage can be told: a
  major sync that checks is one; an AU that passes its checks has the length it states, and where it ends only
  an AU passes; the length fields in front of the first major sync are right, and what stands in front of
  the first AU does not chain onto it. `Exact`: while nothing is flagged the next number is that of the
  cursor, where either the stream begins or nothing passes but an AU, and what is queued are the next AUs,
  all of them. The chain recovered in front of a major sync holds only AUs (`HopsStart`) and every AU from its start on
  (`StartsAreHops`), so the count goes up by one from each to the next (`CountNext`); that no damage
  means nothing in front was lost is `FrontFound`, and `Scanned` that the sync it chains to is the first.
  `framer_first_damaged` shows what happens on a stream whose first length field is wrong.

`AuFramerViewProofs`, on top of that:

- `FramerKeepsContract`: `ViewedSpec => MeetsContract`, so what `Engine` takes from `FramerContract`
  holds for every stream. `VInv`: in sync nothing is queued and number and flag are as last reported;
  locked without it, what is next leads onto a major sync (`Leading`), so the next AU to
  decode is one (`LeadsToValid`) and a search never begins unless the sync was there to lose.

`AuFramerChunksProofs`, on top of `AuFramerProofs`:

- `ChunkingChangesNothing`: `Contained /\ SpecChunks /\ NothingLetGo => []ChunkingIrrelevant`, and
  `ShortStreamsAnyChunking`, the same for streams no longer than `MaxRetained` instead of `NothingLetGo`.
  What the framer has come to with one report (`Outcome`) decides, with the bytes, the next (`Replies`):
  the least AU waiting, the AU in the chain, or what lies behind the first sync word that is not
  refuted. There is one reply at most (`OneReply`), more bytes do not change it (`MoreReplies`), and a
  call that reports nothing has none to give (`CallsReply`). `ChunkInv`: each run is behind
  an outcome of the first (`Behind`): whatever it has searched since cannot be the major sync it is looking for.
  The hypotheses are the exceptions there really are. Without `Contained` (a substream
  directory that passes its checks ends inside its AU) the check reads bytes behind the AU, which is
  `framer_overhang`; and bytes let go after `MAX_RETAINED` without a sync word are counted by one rounded
  estimate for each time they are. The streams of `framer_chunking` meet both hypotheses.

`PtsAttributionProofs`, for every number of records, pushes and timestamps:

- `RecordsTyped`: `Spec => []TypeOK`.
- `PtsNeverWrong`: `Spec => []NeverWrongPts`. Inductive invariant: records are in order and
  begin below `pushed` (`Ordered`), and each record's pts is none or that of every byte up to the
  next record (`Faithful`). `attribute` leaves a record in front that begins no later than the AU while the next
  begins later, so the AU's first byte is one of the record's own.
- `AttributionsExact`: `Spec => []AttributionExact`. `Exact`: a record that holds a byte of an
  unshared push holds bytes of no other (`OfOnePush`); records are numbered in stream order, also
  across seeks; and `au_in_chunk` counts the AUs that began in the first record as long as the last
  AU did (`Counts`). The AUs that began in the push are then those that began at or after the
  record's start, and a record that is not the first yet has seen none.

`EngineProofs`, for every set of configurations and selectors and any number of AUs, seeks and
switches; each theorem has an inductive invariant of its own:

- `DiscontinuityMarked`: `Spec => []DiscontinuityExact`. `Marked`: the pending flag is set if and
  only if the next block is cut off from the last. It is kept because decoding waits for a major
  sync whenever the framer has lost its place, and while it waits the flag is set already.
- `ParserFedCleanly`: `Spec => []ParsesCleanly`. `Clean`: what has been parsed since a restart is
  of the configuration decoding is set up for, and nothing has while a major sync is waited for.
- `SerialIsIdentity`: `Spec => []LayoutIdentity`. `Remembered`: the roles and serial the engine
  keeps are those of the last block, which no reset, switch or panic touches and a rebuilt handle
  starts anew.
- `EveryUnitCounted`: `Spec => []CountsAddUp`. `Accounts`: the AU in hand is the only one reported
  and not counted, the block being assembled the only one decoded and not counted as a block or
  duplicate, and where nothing was estimated an AU's number is how many were reported before it.
- `EngineTypeCorrect`: `Spec => []TypeOK`. A presentation that is decoded exists and has speakers.
- `SelectionsHonoured`: `Spec => []SelectionHonoured`. `Described`: unless set up blindly, the description
  is that of the configuration decoding is set up for, and unless `torn` the presentation is what the selector
  resolves to there. With `Clean` and `Marked` that configuration is the one of the AU in hand. What the
  property says of the presentation it does not say after a panic inside `configure` (see below) until the next
  stream is set up in full.
- `MetadataMatches`, `RolesFollow`: `Spec => []MetadataMatchesBlock`, `[]RolesFollowStream`.
  `OwnMetadata`: what is scheduled or in force was stated by AUs of the configuration and
  presentation that are being decoded, and nothing is while a major sync is waited for.

`ObjectScheduleProofs`, for every number of channels, every set of payloads and block lengths and
every limit of the queue and of a block:

- `ScheduleTypeCorrect`: `Spec => []TypeOK`: what waits in the queue and what is in force has the form of
  accepted updates, within the queue's limit, with the numbering of those (`Counted`).
- `UpdatesDeliveredOnTime`: `Spec => []DeliveredOnTime`. `Queued`: the queue is what was accepted and
  is due behind the last block, in the order of its frames and, at one frame, of its arrival.
  Since it is sorted, what a block takes from its front is exactly what starts in it.
- `SnapshotsInForce`: `Spec => []SnapshotInForce`. `Current`: the values are those of the update in
  force, of which there is one at most. The last update a block takes is the one in force at its
  end (`TakesOver`), folded or not.
- `FollowingChanged`: `Spec => []FollowingChangedIsEnough`. `Followed`: the renderer has the values
  in force. From the last update that marks an element on, each restates the value of the one before
  in the same layout (`UnmarkedIsUnchanged`), so what the renderer applied there still holds.
- `ScheduleMeetsContract`: `Spec => MeetsContract`, a step simulation.

`HarnessProofs`, for every stream and command line within `HarnessConstants`, every cut into packets
and every decoder, sound or faulty. `TInv` is the type invariant all of them rest on, with the shape of
the packets (`Cutting`: they are consecutive and end with the stream) and where the decoder is (`Place`):

- `HarnessTypes`: `Spec => []TypeOK`.
- `RendererFollows`: `Spec => []RendererInStep`. `Meta`: the last update's positions are the ones
  compared with next, so an object that moved without a mark fails the run at once.
- `CursorFindsAll`: `Spec => []CursorMissesNothing`, of any two lists of events, the reference's in order but
  for the window and ours but for what the block offset leaves of it. `Compared`: so far something is
  unmatched if and only if one of the reference's events before `i` has none of ours anywhere. What the cursor has
  skipped was too early for an event compared before (`SkippedPassed`), and so for this one; and behind the
  first of ours that is too late none is early enough (`MatchFound`).
- `MapLearnt`: `Spec => []MapTrue`. `Learning`: the entries there are number the first AU that
  begins in the packet (the AUs of a packet before one of them are those from the first on,
  `PacketRun`); and where every AU gives a block, the decoder returns them in order (`InOrder`), so
  an entry is there as soon as its first AU has been passed, with AU length times its number as the frame.
- `PassedResetKept`: `Spec => []PassMeansResetKept`, whatever the fields of the blocks are. `Judged`: a broken
  promise has failed the run or set one of the flags that do when pass B ends. It rests on `Learning`: judged
  against a map that is not true, a block could be in its place by mistake (`SamplesPlaced`, `OrdinalPlaced`).
  The property is about the samples a block has, so it says nothing of a block without frames but that its number and
  offset are right; and it needs a resume packet that pass A knows, since the frame -1 of an unknown one
  plus a wrong offset can be right.
- `SoundDecoderPasses`: `ReferenceTells /\ Spec => []NoFalseAlarm`, the longest of the proofs. The
  inductive invariant, `Acquits`, was checked by TLC on the run first and follows a sound decoder
  through the program:
  - where it is (`Following`): behind an access unit the reference has, at the frame where
    that one ends, and with nothing left to return whenever the harness pushes. So what it returns is at its
    place, and pass A finds samples and numbers right;
  - what pass A reports (`Queued`, `Reported`): the events are exactly the changes made by the updates
    taken so far, in order of time (`Listed`), and the objects stand where the last of those put them (`Standing`);
  - that matching finds each (`Matching`): our events and those of the reference tell of the same changes. The
    reference's times are never late, and in order but for the window, so a search would find one of ours for each
    (`ListedOrdered`), and then the cursor does (`Compared`);
  - what pass B judges (`Seeking`): before the reset the blocks are in place, after it the decoder
    counts from the resume packet (`Resumed`), whose entry of the map is true (`Learning`), so the
    differences the harness compares are right. At the end of the input the reset has happened and a block
    followed it, since the reset is within the reference and a major sync comes at or after the resume packet (`Testable`).

Assumptions: the named `ASSUME`s on the constants, and the hypotheses that `OneOfThemTakes`, `NumbersExact`, the two
theorems of `AuFramerChunksProofs` and `SoundDecoderPasses` state. Those are about streams only (`AuStreams`, `HarnessStreams`; but for `NothingLetGo`), and the `MC` modules
of the runs that check the same properties `ASSUME` them, so TLC evaluates them for the streams checked. Two of the `ASSUME`s say something of streams. `MapsConform`: the presentation the decoder takes for an absent one is a present one below
it, an independent one is itself, and a stream has a presentation other than 3 (that map is the
truehd crate's). `MetadataConforms`: layouts come only from streams whose major syncs announce objects, which
is what engine.rs:419-421 says of conforming streams. TLC evaluates both for the configurations of
the run.

## What is only model-checked

- `ChunkingIrrelevant` of streams that are let go in part.
- The offsets of `EngineOffsets`, which are violated.
- Liveness (`EventuallyCaughtUp`, `Terminates`), which the prover does not reach.

## What is not modelled, and why

- Of the C API (lib.rs): argument checks, the getters, and how long the pointers in a block live.
  The first two have no state; the last is a promise about memory that holds because nothing but
  pull, reset and set_presentation writes to the buffers.
- Of the harness: CAF parsing, the command line, the comparison of element counts and speakers, what it prints,
  and what a push refused in pass B comes to (its status is not looked at; the decoder of the model never refuses there).
- checksum.c and verify.sh: they write samples to a pipe and compare digests.
- PCM conversion, label tables, speaker names, the reading of an element's fields
  (objects.rs:178-295): data, with no state or order to it.
- Wording of error messages.
- Which byte tells the two sync words apart: `SyncRefuted` waits for `MsiPeek` bytes for either, while
  framer.rs:429-438 looks at each for itself and knows an FBB sync from fewer. That shifts when a
  search goes on by bytes that no property counts.
- Wrapping of the 64-bit counters.
- `src/SiloObjectAudio.xcframework`: build output, whose headers are copies of the header.
- The truehd crate, except for what the engine relies on: it needs a major sync after a restart,
  it falls back to the highest presentation there is, and it may fail at any AU.

### Behaviour met while modelling that no run calls wrong

Of the decoder:

- A probe that fails at a configuration change leaves the old description, signature and layout in
  place and does not restart decoding (engine.rs:293-297; the properties of `Engine` exempt it with
  `blind`). If the old configuration then returns, its signature is still known and the presentation
  stays the selector's fallback (engine.rs:284).
- A rejected metadata payload keeps the updates it had queued and its warp mode (objects.rs:100-102,
  161-163).
- A panic in `configure` between engine.rs:302 and 308 leaves signature and description of the new stream beside
  the presentation resolved for the old one. The reset that follows keeps all three, the next major
  sync of that stream counts as known (engine.rs:285), and what the old stream's presentation was is required and
  decoded. The header promises nothing of a presentation after a panic; `SelectionHonoured` exempts it with `torn`.
- `configure` never returns false (engine.rs:280), and the check at engine.rs:322 never applies
  (`ParsesCleanly`).
- A set_presentation that panics has changed the selector already (engine.rs:138-142).
- After a reset that panics, the rebuilt engine has no stream description and starts layout_serial
  over (lib.rs:124), though the header says of reset that both stay.
- Getters, a push of nothing and an invalid selector answer on a poisoned handle as on any other.

Of the harness:

- With a sound decoder it fails streams that have an encoder duplicate after a block in one packet
  (the duplicate is counted into `pts_au_index` but has no reference frames) and streams whose first
  packet begins with AUs before the first major sync (`ref_pos` is negative and taken for "not
  known"); `NoFalseAlarm` is stated without the second pass of these.
- When no packet is known from the resume point on, it resumes at packet 0 even if that one is not
  known either (harness.c:612).
- Pass A compares each block at the position the block itself states, so a frame returned twice
  and another left out is noticed only by its samples. Blocks missing after the reset are not
  noticed, as long as there is one; nor is the `sample_position` of any after the first.
- Without references a decoder that returns nothing passes.
- Pass B looks up the packet of a block without checking that there is one of that number
  (harness.c:638), and does not look at what push returns.
- checksum.c reports on a block it never received when the stream gives none, and does not look at
  what push returns.

## Plan

1. Done: `AuFramer` with its log, contract, chunking and proofs; `PtsAttribution`, `ObjectSchedule`
   with its contract and `Engine` over both contracts, with panics, all of whose properties are
   proved; `Harness`.
2. Done: every invariant and action property that a passing run checks is stated by a theorem. `NoFalseAlarm` is
   proved for references that tell the truth, chunking for streams of which nothing is let go.
