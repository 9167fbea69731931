------------------------------- MODULE Engine -------------------------------
(***************************************************************************)
(* The decoder behind a handle (src/src/engine.rs): the pull loop with its *)
(* recovery from damage and from access units that do not decode, the      *)
(* configuration learnt at major syncs, the presentation that is decoded   *)
(* and the identity of the channel layout that blocks carry.               *)
(*                                                                         *)
(* One turn of the pull loop is a few steps, from Fetch through Configure  *)
(* and Decode to Emit; `step` keeps the caller's other operations out.     *)
(* A turn that ends without a block may be followed by anything: a pull()  *)
(* that goes round again cannot be told from one that asked for more data  *)
(* in between.                                                             *)
(*                                                                         *)
(* A panic that no recovery inside the loop catches ends the call at the   *)
(* boundary (src/src/lib.rs) and poisons the handle: `step` is then        *)
(* "poisoned", and nothing but reset does anything.                        *)
(*                                                                         *)
(* Present as far as the engine sees them are                              *)
(*   - the framer: its replies are those of FramerContract;                *)
(*   - the parser and decoder of the truehd crate, which are external:     *)
(*     they need a major sync first, and any access unit may fail in them; *)
(*   - the object metadata schedule: ScheduleContract.                     *)
(***************************************************************************)
EXTENDS FramerContract, ScheduleContract, Sequences, FiniteSets

CONSTANTS
    Configs,        \* configurations a stream may have
    NoConfig,
    Speakers,       \* roles a channel may have
    Selections,     \* presentation selectors in use
    MaxAus,         \* bound on the access units counted between two seeks
    MaxSerial,      \* u32::MAX: the largest layout_serial
    MaxCalls        \* bound on the calls of reset and set_presentation

Highest             == -1  \* PRESENTATION_HIGHEST
HighestChannelBased == -2  \* PRESENTATION_HIGHEST_CHANNEL_BASED
Absent              == -1  \* no such presentation
Presentations       == 0..3

\* What a major sync says, and what a decode of its stream gives.
\*   decodes      the presentation decoded for each: itself, or the one it is
\*                a copy of, or Absent
\*   independent  the presentations that are not a mix of another
\*   channels     how many channels each has
\*   labels       speakers of the channels that have a label
\*   objects      presentation 3 has objects in its other channels
\*   frames       frames per access unit
\*   oamd         element configurations its object metadata states
Config == [decodes : [Presentations -> Presentations \cup {Absent}],
           independent : SUBSET Presentations,
           channels : [Presentations -> Nat],
           labels : [Presentations -> Seq(Speakers)],
           objects : BOOLEAN, frames : Nat \ {0}, oamd : SUBSET Seq(Speakers)]

ASSUME EngineConstants ==
    /\ {"object", "unknown"} \subseteq Speakers
    /\ Configs \subseteq Config /\ NoConfig \notin Configs
    /\ Selections \subseteq {Highest, HighestChannelBased} \cup Presentations
    /\ MaxAus \in Nat /\ MaxCalls \in Nat /\ MaxSerial \in Nat \ {0}

VARIABLES
    step,           \* "caller", what this turn of pull() does next, "poisoned"
    selection,
    waiting,        \* waiting_for_sync: decoding restarts at a major sync
    signature,      \* the configuration it is set up for, or NoConfig
    desc,           \* the stream described to the caller, or NoConfig
    resolved,       \* the presentation required of parser and decoder
    discontinuity,  \* pending_flags: the next block carries DISCONTINUITY
    roles,          \* channel roles of the last block
    serial,         \* layout_serial
    stats,          \* the counters of access units
    stream,         \* configuration of the last access unit to decode, or NoConfig
    au,             \* the access unit in hand
    block,          \* the block just returned, or NoBlock
    parsed,         \* history: configurations parsed since decoding restarted
    cut,            \* history: the next block does not follow on the last one
    blind,          \* history: set up without a description, after a probe failed
    torn,           \* history: a panic left the set-up of a new stream half done
    previous,       \* history: roles and serial of the last block ever
    calls           \* resets and presentation changes so far (bound only)

engineVars   == <<selection, signature, desc, resolved, torn>>
decodingVars == <<waiting, discontinuity, scheduled, layout, parsed>>
identityVars == <<roles, serial, previous>>
framerVars   == <<framerView, stream>>
vars == <<step, engineVars, decodingVars, identityVars, framerVars, stats, au,
          block, cut, blind, calls>>

NoLayout == <<>>
NoRoles  == [frames |-> 0, presentation |-> Absent, speakers |-> <<>>]
NoBlock  == [kind |-> "none"]
NoStats  == [skipped |-> 0, decoded |-> 0, blocks |-> 0, duplicates |-> 0, errors |-> 0]
NoAu     == [major |-> FALSE, config |-> NoConfig, number |-> 0]

Counted(counters) ==
    [c \in DOMAIN stats |-> IF c \in counters THEN stats[c] + 1 ELSE stats[c]]

-----------------------------------------------------------------------------
(* Which presentation: stream::resolve, fallback_resolution.               *)

IsGreatest(i, S) == i \in S /\ \A j \in S : j <= i

\* max_independent_presentation, or 0.
Best(config) ==
    IF config.independent = {} THEN 0
    ELSE CHOOSE i \in config.independent : IsGreatest(i, config.independent)

Present(config) == {i \in Presentations : config.decodes[i] # Absent}

\* Mutant: a presentation the stream does not have is taken all the same.
Resolve_Unchecked(sel, config) ==
    IF sel \in Presentations THEN config.decodes[sel] ELSE Best(config)

Resolve(sel, config) ==
    IF sel = HighestChannelBased
    THEN LET beds == Present(config) \ {3}
         IN  IF beds = {} THEN 0
             ELSE config.decodes[CHOOSE i \in beds : IsGreatest(i, beds)]
    ELSE LET wanted == IF sel = Highest THEN 3 ELSE sel
         IN  IF wanted \in Present(config) THEN config.decodes[wanted] ELSE Best(config)

\* The selector as upstream would read it.
Fallback(sel) ==
    IF sel = Highest THEN 3 ELSE IF sel = HighestChannelBased THEN 2 ELSE sel

\* External: the decoder falls back to the highest presentation there is.
DecodesAs(required, config) ==
    IF required \in Present(config) THEN config.decodes[required] ELSE Best(config)

\* External: the truehd crate makes a presentation a copy only of a lower one that
\* is none itself, and a stream always has one below the objects' presentation.
ASSUME MapsConform ==
    \A config \in Configs :
        /\ \A i \in Present(config) : LET as == config.decodes[i]
                                     IN  as <= i /\ config.decodes[as] = as
        /\ \A i \in config.independent : config.decodes[i] = i
        /\ Present(config) \ {3} # {}

\* Metadata is only expected where the major sync says there are objects: the two
\* "agree on conforming streams" (engine.rs:419-421).
ASSUME MetadataConforms == \A config \in Configs : config.oamd # {} => config.objects

-----------------------------------------------------------------------------
(* Restarting.                                                             *)

\* Mutant: scheduled metadata survives.
Restart_KeepsObjects ==
    /\ waiting' = TRUE /\ discontinuity' = TRUE /\ parsed' = {}
    /\ UNCHANGED <<scheduled, layout>>

\* Mutant: the next block is not marked.
Restart_Unmarked ==
    /\ waiting' = TRUE /\ parsed' = {}
    /\ Drops(NoLayout)
    /\ UNCHANGED discontinuity

\* restart_decoding: everything is dropped up to the next major sync.
Restart ==
    /\ waiting' = TRUE /\ discontinuity' = TRUE
    /\ Drops(NoLayout)
    /\ parsed' = {}

RestartIf(condition) == IF condition THEN Restart ELSE UNCHANGED decodingVars

\* A seek, perhaps into another stream: its description and the identity of the
\* layout stay until a major sync replaces them.
\* It is the way out of poisoning.
Reset ==
    /\ step \in {"caller", "poisoned"} /\ calls < MaxCalls /\ calls' = calls + 1
    /\ step' = "caller"
    /\ Restart
    /\ Forgets /\ stream' = NoConfig
    /\ stats' = NoStats
    /\ block' = NoBlock /\ cut' = TRUE
    /\ UNCHANGED <<engineVars, identityVars, au, blind>>

SetPresentation(sel) ==
    /\ step = "caller" /\ calls < MaxCalls /\ calls' = calls + 1
    /\ selection' = sel /\ signature' = NoConfig /\ torn' = FALSE
    /\ Restart
    /\ block' = NoBlock /\ cut' = TRUE
    /\ UNCHANGED <<step, desc, resolved, identityVars, framerVars, stats, au, blind>>

\* A panic in one of the calls: what it had done by then stays. set_presentation
\* may have changed the selector; and what configure does after probing, from
\* taking the major sync for known to having its presentation required, is not
\* caught by anything closer (what the parser alone was told is not told apart).
Panic ==
    /\ step # "poisoned" /\ calls < MaxCalls
    /\ step' = "poisoned"
    /\ \/ UNCHANGED <<engineVars, blind>>
       \/ /\ step = "caller"
          /\ selection' \in Selections /\ signature' = NoConfig /\ torn' = FALSE
          /\ UNCHANGED <<desc, resolved, blind>>
       \/ /\ step = "configure" /\ signature # au.config
          /\ signature' = au.config /\ desc' = au.config
          /\ resolved' \in {resolved, Resolve(selection, au.config)}
          /\ torn' = TRUE
          /\ UNCHANGED <<selection, blind>>
       \/ /\ step = "configure" /\ signature # au.config
          /\ resolved' = Fallback(selection) /\ blind' = TRUE
          /\ UNCHANGED <<selection, signature, desc, torn>>
    /\ au' = NoAu /\ block' = NoBlock /\ cut' = TRUE
    /\ UNCHANGED <<decodingVars, identityVars, framerVars, stats, calls>>

\* Reset panics itself: the handle gets a new engine with the same selector.
\* The stream it described and the layout it had named are forgotten.
Rebuild ==
    /\ step \in {"caller", "poisoned"} /\ calls < MaxCalls /\ calls' = calls + 1
    /\ step' = "caller"
    /\ waiting' = TRUE /\ signature' = NoConfig /\ desc' = NoConfig
    /\ resolved' = 0 /\ discontinuity' = TRUE
    /\ roles' = NoRoles /\ serial' = 0
    /\ Drops(NoLayout)
    /\ Forgets /\ stream' = NoConfig /\ stats' = NoStats
    /\ au' = NoAu /\ block' = NoBlock
    /\ parsed' = {} /\ cut' = TRUE /\ blind' = FALSE /\ torn' = FALSE
    /\ previous' = [roles |-> NoRoles, serial |-> 0]
    /\ UNCHANGED selection

-----------------------------------------------------------------------------
(* One turn of pull().                                                     *)

\* The framer needs more data, and may have run into damage first.
FetchNothing(damaged) ==
    /\ step = "caller"
    /\ RunsDry(damaged)
    /\ RestartIf(damaged /\ ~waiting)
    /\ cut' = (cut \/ damaged)
    /\ block' = NoBlock
    /\ UNCHANGED <<step, engineVars, identityVars, stream, stats, au, blind, calls>>

\* One that can only be counted: the framer found it on the way to a major sync.
FetchSkipped(damaged, lost, guess) ==
    /\ step = "caller" /\ ordinal + lost < MaxAus
    /\ Skips(damaged, lost, guess)
    /\ RestartIf(damaged /\ ~waiting)
    /\ stats' = Counted({"skipped"})
    /\ cut' = TRUE /\ block' = NoBlock
    /\ UNCHANGED <<step, engineVars, identityVars, stream, au, blind, calls>>

\* One to decode, unless decoding waits for a major sync and it is none. Whether
\* it does is read before the damage reported along with it is dealt with.
FetchAu(major, config, damaged, lost, guess) ==
    /\ step = "caller" /\ ordinal + lost < MaxAus
    /\ Delivers(major, damaged, lost, guess)
    /\ ~major => config = stream
    /\ RestartIf(damaged /\ ~waiting)
    /\ LET wanted == ~waiting \/ major
       IN  /\ au' = IF wanted
                    THEN [major |-> major, config |-> config, number |-> ordinal + lost]
                    ELSE NoAu
           /\ stats' = IF wanted THEN stats ELSE Counted({"skipped"})
           /\ step' = IF ~wanted THEN "caller" ELSE IF major THEN "configure" ELSE "decode"
           /\ cut' = (cut \/ damaged \/ ~wanted)
    /\ stream' = config /\ block' = NoBlock
    /\ UNCHANGED <<engineVars, identityVars, blind, calls>>

\* Mutant: compared with what the caller was told.
Known_Described == desc = au.config
\* The major sync says what the one decoding was set up for said.
Known == signature = au.config

ConfigureKnown ==
    /\ step = "configure" /\ Known
    /\ step' = "decode"
    /\ UNCHANGED <<engineVars, decodingVars, identityVars, framerVars, stats, au,
                   block, cut, blind, calls>>

\* The stream cannot be described: the selector alone decides, and nothing is
\* restarted.
ConfigureBlindly ==
    /\ step = "configure" /\ ~Known
    /\ resolved' = Fallback(selection)
    /\ step' = "decode" /\ blind' = TRUE
    /\ UNCHANGED <<selection, signature, desc, torn, decodingVars, identityVars,
                   framerVars, stats, au, block, cut, calls>>

\* Mutant: decoding goes on across a change of configuration.
ChangedMidStream_Never == FALSE
ChangedMidStream == signature # NoConfig /\ ~waiting

\* The stream is described and its presentation chosen; a change of
\* configuration starts cleanly at this access unit.
ConfigureNew ==
    /\ step = "configure" /\ ~Known
    /\ signature' = au.config /\ desc' = au.config
    /\ resolved' = Resolve(selection, au.config)
    /\ RestartIf(ChangedMidStream)
    /\ step' = "decode"
    /\ blind' = (blind /\ ~waiting /\ signature = NoConfig) /\ torn' = FALSE
    /\ cut' = (cut \/ signature # NoConfig)
    /\ UNCHANGED <<selection, identityVars, framerVars, stats, au, block, calls>>

\* decode: nothing but a major sync while decoding waits for one.
MayParse == au.major \/ ~waiting

\* It is left out when it may not be parsed; otherwise the parser or the decoder
\* refuses it, or panics.
DecodeFails ==
    /\ step = "decode"
    /\ stats' = Counted({IF MayParse THEN "errors" ELSE "skipped"})
    /\ RestartIf(MayParse)
    /\ step' = "caller" /\ au' = NoAu /\ cut' = TRUE
    /\ UNCHANGED <<engineVars, identityVars, framerVars, block, blind, calls>>

\* Mutant: a duplicate is not counted as decoded.
Counters_Exclusive(duplicate) == IF duplicate THEN {"duplicates"} ELSE {"decoded"}
Counters(duplicate) == IF duplicate THEN {"decoded", "duplicates"} ELSE {"decoded"}

\* It decodes; an encoder duplicate is dropped without a trace.
Decode(duplicate) ==
    /\ step = "decode" /\ MayParse
    /\ waiting' = FALSE
    /\ parsed' = parsed \cup {au.config}
    /\ stats' = Counted(Counters(duplicate))
    /\ step' = IF duplicate THEN "caller" ELSE "emit"
    /\ au' = IF duplicate THEN NoAu ELSE au
    /\ UNCHANGED <<engineVars, discontinuity, scheduled, layout, identityVars,
                   framerVars, block, cut, blind, calls>>

-----------------------------------------------------------------------------
(* emit                                                                    *)

\* Mutant: channels without a label are objects in every presentation.
IsObjects_AnyPresentation(presentation) == desc # NoConfig /\ desc.objects
IsObjects(presentation) == presentation = 3 /\ desc # NoConfig /\ desc.objects

\* stream::roles
RolesFromSync(labels, channels, objects) ==
    [c \in 1..channels |->
        IF c <= Len(labels) THEN labels[c] ELSE IF objects THEN "object" ELSE "unknown"]

\* The metadata of the block: the access unit's payloads schedule updates with
\* these layouts, and some of the updates waiting start in this block.
Metadata(presentation, channels) ==
    \E arrived \in SUBSET {l \in au.config.oamd : Len(l) = channels} :
        /\ arrived # {} => presentation = 3
        /\ \E started \in SUBSET (scheduled \cup arrived) :
               \E left \in SUBSET started : Takes(arrived, started, left)

\* Mutant: only the speakers are compared.
RolesMoved_SpeakersOnly(now) == roles.speakers # now.speakers
RolesMoved(now) == roles # now

\* wrapping_add
Following(n) == IF n = MaxSerial THEN 0 ELSE n + 1

Emit ==
    LET presentation == DecodesAs(resolved, au.config)
        channels == au.config.channels[presentation]
        objects  == IsObjects(presentation)
        speakers == IF layout' # NoLayout /\ objects /\ Len(layout') = channels
                    THEN layout'
                    ELSE RolesFromSync(au.config.labels[presentation], channels, objects)
        now      == [frames |-> au.config.frames, presentation |-> presentation,
                     speakers |-> speakers]
        nominal  == IF desc = NoConfig THEN au.config.frames ELSE desc.frames
    IN  /\ step = "emit"
        /\ Metadata(presentation, channels)
        /\ roles' = now
        /\ serial' = IF RolesMoved(now) THEN Following(serial) ELSE serial
        /\ discontinuity' = FALSE
        /\ block' = [kind |-> "block", discontinuity |-> discontinuity,
                     changed |-> RolesMoved(now), metadata |-> layout', roles |-> now,
                     serial |-> serial', number |-> au.number,
                     offset |-> au.number * nominal, estimated |-> estimated,
                     au |-> au, cut |-> cut, last |-> previous]
        /\ previous' = [roles |-> now, serial |-> serial']
        /\ stats' = Counted({"blocks"})
        /\ step' = "caller" /\ au' = NoAu /\ cut' = FALSE
        /\ UNCHANGED <<engineVars, waiting, parsed, framerVars, blind, calls>>

-----------------------------------------------------------------------------
Init ==
    /\ step = "caller" /\ selection \in Selections
    /\ waiting = TRUE /\ signature = NoConfig /\ desc = NoConfig
    /\ resolved = 0 /\ discontinuity = TRUE
    /\ roles = NoRoles /\ serial = 0
    /\ scheduled = {} /\ layout = NoLayout
    /\ stats = NoStats
    /\ Unseen /\ stream = NoConfig
    /\ au = NoAu /\ block = NoBlock
    /\ parsed = {} /\ cut = TRUE /\ blind = FALSE /\ torn = FALSE
    /\ previous = [roles |-> NoRoles, serial |-> 0]
    /\ calls = 0

Next ==
    \/ Reset \/ Panic \/ Rebuild
    \/ \E sel \in Selections : SetPresentation(sel)
    \/ \E damaged \in BOOLEAN : FetchNothing(damaged)
    \/ \E damaged, guess \in BOOLEAN, lost \in 0..1 :
           \/ FetchSkipped(damaged, lost, guess)
           \/ \E major \in BOOLEAN, config \in Configs :
                  FetchAu(major, config, damaged, lost, guess)
    \/ ConfigureKnown \/ ConfigureBlindly \/ ConfigureNew
    \/ DecodeFails
    \/ \E duplicate \in BOOLEAN : Decode(duplicate)
    \/ Emit

Spec == Init /\ [][Next]_vars

-----------------------------------------------------------------------------
(* Properties.                                                             *)

Roles == [frames : Nat, presentation : Presentations \cup {Absent},
          speakers : Seq(Speakers)]

\* Every variable stays in its type; in particular the presentation required of
\* the decoder is one there can be.
TypeOK ==
    /\ step \in {"caller", "configure", "decode", "emit", "poisoned"}
    /\ selection \in Selections
    /\ waiting \in BOOLEAN /\ discontinuity \in BOOLEAN /\ inSync \in BOOLEAN
    /\ estimated \in BOOLEAN /\ cut \in BOOLEAN
    /\ blind \in BOOLEAN /\ torn \in BOOLEAN
    /\ {signature, desc} \subseteq Configs \cup {NoConfig}
    /\ resolved \in Presentations
    /\ roles \in Roles /\ serial \in 0..MaxSerial
    /\ scheduled \subseteq Seq(Speakers) /\ layout \in Seq(Speakers)
    /\ stats \in [DOMAIN NoStats -> Nat]
    /\ ordinal \in Nat /\ reported \in Nat
    /\ stream \in Configs \cup {NoConfig} /\ parsed \subseteq Configs
    /\ au.config \in Configs \cup {NoConfig} /\ au.number \in Nat
    /\ previous.roles \in Roles /\ previous.serial \in 0..MaxSerial
    /\ calls \in 0..MaxCalls

Returned == block # NoBlock

\* A block carries DISCONTINUITY exactly when it does not follow on the block
\* before it: it is the first since create, reset or set_presentation, access
\* units between them were skipped, failed or were damaged, or configure found the
\* stream's configuration changed, which it cannot when the probe fails. Encoder
\* duplicates in between do not count.
DiscontinuityExact == Returned => (block.discontinuity <=> block.cut)

\* The parser is only given what it can make sense of: a major sync first, and
\* between two restarts one configuration, unless a probe failed.
ParsesCleanly ==
    step = "decode" =>
        /\ MayParse
        /\ parsed = {} => au.major
        /\ ~blind => parsed \subseteq {au.config}

\* Unless the stream could not be probed, get_stream_info is about the stream of
\* the block just returned, with its serial; and what that block was decoded as is
\* what the selector means on its stream, however often selector and stream
\* changed, and is what get_stream_info names. After a panic that left configure
\* half done this last part may fail: reset() takes the stream for known, with the
\* presentation required before.
SelectionHonoured ==
    Returned /\ ~blind =>
        /\ desc = block.au.config /\ serial = block.serial
        /\ ~torn => /\ resolved = block.roles.presentation
                    /\ block.roles.presentation = Resolve(selection, block.au.config)

\* Every access unit the framer reported was skipped, failed or was decoded;
\* every decoded one is in a block or a duplicate; and input_access_unit, where
\* no estimate is in it, is the number accounted for before the block.
CountsAddUp ==
    step = "caller" =>
        /\ stats.skipped + stats.errors + stats.decoded = reported
        /\ stats.blocks + stats.duplicates = stats.decoded
        /\ Returned /\ ~block.estimated =>
            block.number + 1 = stats.skipped + stats.errors + stats.decoded

\* layout_serial and LAYOUT_CHANGED move exactly when the roles of a block differ
\* from those of the block before it, whatever was reset in between and however
\* often the serial has gone round; a rebuilt handle starts over.
LayoutIdentity ==
    Returned =>
        /\ block.serial = block.last.serial <=> block.roles = block.last.roles
        /\ block.changed <=> block.serial # block.last.serial

\* On a stream whose metadata agrees with its major syncs the roles, and so the
\* serial, do not depend on whether metadata has arrived yet, on damage or seeks.
RolesFollowStream ==
    Returned /\ ~blind =>
        LET c == block.au.config
            p == block.roles.presentation
            true == RolesFromSync(c.labels[p], c.channels[p], p = 3 /\ c.objects)
        IN  (p = 3 => c.oamd \subseteq {true}) => block.roles.speakers = true

\* Metadata only comes with presentation 3, and its elements match the speakers
\* of the block index for index.
MetadataMatchesBlock ==
    Returned /\ ~blind /\ block.metadata # NoLayout =>
        /\ block.roles.presentation = 3
        /\ block.metadata = block.roles.speakers
=============================================================================
