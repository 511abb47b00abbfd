------------------------------ MODULE GopCache ------------------------------
(***************************************************************************)
(* The GOP cache of a relay (agent-rust/src/relay/gop_cache.rs): the       *)
(* latest sequence headers and the last groups of pictures, replayed to a  *)
(* viewer that joins.  A tag is its number in the order of arrival and its *)
(* kind, which is what parse_video_frame_type and parse_audio_frame_type   *)
(* make of its first bytes ("audio" stands for every tag that is neither a *)
(* header nor a picture and is cached with the current GOP).               *)
(***************************************************************************)
EXTENDS Integers, Sequences, SequencesExt

CONSTANTS
    GopCount,   \* 2 complete GOPs are kept
    MaxFrames   \* 4096 tags at most in one GOP

ASSUME CacheAssumption == GopCount \in Nat /\ MaxFrames \in Nat \ {0}

HeaderKind == {"script", "audioHeader", "videoHeader"}
MediaKind == {"key", "inter", "audio"}

\* ring: the complete GOPs, oldest first; cur: the GOP being built, or empty;
\* head: the number of the latest tag of each header kind, 0 if none came.
EmptyCache == [ring |-> << >>, cur |-> << >>, head |-> [k \in HeaderKind |-> 0]]

\* Caches of the first n tags, within their bounds.
Cache(n) ==
    {c \in [ring : Seq(Seq(1..n)), cur : Seq(1..n), head : [HeaderKind -> 0..n]] :
        /\ Len(c.ring) <= GopCount
        /\ \A i \in DOMAIN c.ring : Len(c.ring[i]) <= MaxFrames
        /\ Len(c.cur) <= MaxFrames}

\* Fault: the oldest GOP is not evicted.
FinalizeCurrentGopUnbounded(c) == IF c.cur = << >> THEN c.ring ELSE Append(c.ring, c.cur)

\* finalize_current_gop: the ring with the current GOP added, the oldest evicted.
FinalizeCurrentGop(c) ==
    LET full == Append(c.ring, c.cur)
        more == Len(full) - GopCount
    IN  IF c.cur = << >> THEN c.ring
        ELSE IF more > 0 THEN SubSeq(full, more + 1, Len(full)) ELSE full

\* Fault: tags that come before any key frame start a GOP.
AddToCurrentGopAlways(c, i) == IF Len(c.cur) < MaxFrames THEN Append(c.cur, i) ELSE c.cur

\* add_to_current_gop: without a key frame, or in a GOP that is full, the tag
\* is not kept.
AddToCurrentGop(c, i) ==
    IF c.cur # << >> /\ Len(c.cur) < MaxFrames THEN Append(c.cur, i) ELSE c.cur

\* add_tag.
AddTag(c, i, kind) ==
    CASE kind \in HeaderKind -> [c EXCEPT !.head[kind] = i]
      [] kind = "key"        -> [c EXCEPT !.ring = FinalizeCurrentGop(c), !.cur = <<i>>]
      [] OTHER               -> [c EXCEPT !.cur = AddToCurrentGop(c, i)]

\* A header that was seen.
Seen(i) == IF i = 0 THEN << >> ELSE <<i>>

\* get_startup_tags: metadata, audio header, video header, then the GOPs.
GetStartupTags(c) ==
    Seen(c.head["script"]) \o Seen(c.head["audioHeader"]) \o Seen(c.head["videoHeader"])
        \o FlattenSeq(c.ring) \o c.cur
=============================================================================
