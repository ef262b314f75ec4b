------------------------------ MODULE Updates ------------------------------
(***************************************************************************)
(* Client updates.  CI uploads manifest.json and the binaries to the       *)
(* object store; a client asks METHOD 19 for the newest release and then   *)
(* METHOD 20 for one chunk after the other, until is_last; it installs     *)
(* what has the announced sha256 and starts again otherwise.               *)
(*                                                                         *)
(* Every chunk reads the manifest again, and the file in a second request  *)
(* to the store, whose HTTP status it does not look at: an error body, or  *)
(* the whole file from a store that does not know Range, is data too.  The *)
(* offsets are u64 and wrap around in a release build.                     *)
(***************************************************************************)
EXTENDS Integers, Sequences

CONSTANTS Sizes,              \* Sizes[v][p]: the size of release v for platform p
          Platforms,          \* keys of the manifest
          ChunkSizes,         \* chunk_size values clients ask for
          MaxChunk,           \* MAX_CHUNK_SIZE
          MaxSize,            \* bound on the size of a file
          W,                  \* 2^64, the width of offsets
          ErrorSizes,         \* lengths of the bodies of error answers
          MaxFault            \* bound on requests that fail for no reason of their own

Default  == "linux-x86_64-deb"
Empty    == ""                \* a string field of a request that was not set
Last     == Len(Sizes)
Releases == 1..Last

ASSUME SizesAssumption ==
  /\ Last \in Nat /\ MaxSize \in Nat /\ MaxFault \in Nat
  /\ Default \in Platforms
  /\ \A v \in Releases : /\ DOMAIN Sizes[v] \subseteq Platforms
                         /\ \A p \in DOMAIN Sizes[v] : Sizes[v][p] \in 1..MaxSize
ASSUME ErrorAssumption == ErrorSizes \subseteq 0..MaxSize
ASSUME WidthAssumption == /\ ChunkSizes \subseteq Nat /\ MaxChunk \in Nat \ {0}
                          /\ W \in Nat /\ 2 * MaxSize + MaxChunk < W

VARIABLES
  manifest,  \* the release manifest.json describes, 0 before the first
  binaries,  \* the last release whose files are in the store
  store,     \* "ranges": the store honours Range; "whole": it sends whole files
  platform,  \* what the client says it is, Empty for a client that says nothing
  installed, \* the release the client runs, 0 for one that was never updated
  client,    \* the download under way
  faults     \* the number of failed requests so far

vars == <<manifest, binaries, store, platform, installed, client, faults>>

\* The bytes of a file, and the bodies of error answers.
File(v, p) == [i \in 1..Sizes[v][p] |-> <<v, p, i>>]
Junk       == <<0, "error", 0>>
Errors     == {[i \in 1..n |-> Junk] : n \in ErrorSizes}
Byte       == {Junk} \cup UNION {UNION {{<<v, p, i>> : i \in 1..Sizes[v][p]} :
                                           p \in DOMAIN Sizes[v]} : v \in Releases}

Idle == [pc |-> "idle"]

\* A download: the release and the platform of METHOD 19, the chunk size, the
\* bytes so far, the release a running METHOD 20 has read in the manifest.
\* quiet (history): the files were there when it began, no manifest followed and
\* the store answered no request for a range with an error.
Transfer == [pc : {"chunk", "range", "verify"}, release : Releases, entry : 0..Last,
             platform : Platforms, chunk : ChunkSizes, buffer : Seq(Byte), quiet : BOOLEAN]

TypeOK ==
  /\ manifest \in 0..Last /\ binaries \in 0..Last /\ installed \in 0..Last
  /\ platform \in Platforms \cup {Empty} /\ store \in {"ranges", "whole"}
  /\ faults \in 0..MaxFault
  /\ client \in {Idle} \cup Transfer
  /\ client # Idle => Len(client.buffer) < 2 * MaxSize

Init == /\ manifest = 0 /\ binaries = 0 /\ installed = 0 /\ faults = 0
        /\ platform \in Platforms \cup {Empty} /\ store \in {"ranges", "whole"}
        /\ client = Idle

-----------------------------------------------------------------------------
(* The pipeline: a release is complete before the next one starts; its       *)
(* manifest and its binaries are uploaded in any order.                      *)

PublishManifest ==
  /\ manifest < Last /\ manifest <= binaries
  /\ manifest' = manifest + 1
  /\ client' = IF client = Idle THEN client ELSE [client EXCEPT !.quiet = FALSE]
  /\ UNCHANGED <<binaries, store, platform, installed, faults>>

PublishBinaries ==
  /\ binaries < Last /\ binaries <= manifest
  /\ binaries' = binaries + 1
  /\ UNCHANGED <<manifest, store, platform, installed, client, faults>>

-----------------------------------------------------------------------------
(* METHOD 19 *)

\* The entry METHOD 19 looks up: the platform, current_version for clients that
\* still put it there, or the default.
ManifestPlatform(field, currentVersion) ==
  IF field # Empty THEN field ELSE IF currentVersion # Empty THEN currentVersion ELSE Default

\* The client learns of a newer release and begins to download it.
GetUpdateManifest(field, currentVersion, chunk) ==
  LET p == ManifestPlatform(field, currentVersion)
  IN  /\ client = Idle
      /\ manifest > installed
      /\ p \in DOMAIN Sizes[manifest]
      /\ client' = [pc |-> "chunk", release |-> manifest, entry |-> 0, platform |-> p,
                    chunk |-> chunk, buffer |-> <<>>, quiet |-> binaries >= manifest]
      /\ UNCHANGED <<manifest, binaries, store, platform, installed, faults>>

-----------------------------------------------------------------------------
(* METHOD 20 *)

\* Mutant: the platform of the request is ignored.
ChunkPlatformDefault(currentVersion) == Default

\* The entry METHOD 20 looks up: its request has the platform in current_version.
ChunkPlatform(currentVersion) == IF currentVersion # Empty THEN currentVersion ELSE Default

\* Mutant: a chunk that would go past the end is refused.
ChunkManifestStrict ==
  /\ client # Idle /\ client.pc = "chunk"
  /\ client' = IF /\ ChunkPlatform(platform) \in DOMAIN Sizes[manifest]
                  /\ Len(client.buffer) + client.chunk <= Sizes[manifest][ChunkPlatform(platform)]
               THEN [client EXCEPT !.pc = "range", !.entry = manifest]
               ELSE Idle
  /\ UNCHANGED <<manifest, binaries, store, platform, installed, faults>>

\* The first request to the store: the manifest, as it is now.
ChunkManifest ==
  /\ client # Idle /\ client.pc = "chunk"
  /\ client' = IF ChunkPlatform(platform) \in DOMAIN Sizes[manifest]
               THEN [client EXCEPT !.pc = "range", !.entry = manifest]
               ELSE Idle
  /\ UNCHANGED <<manifest, binaries, store, platform, installed, faults>>

Min(a, b) == IF a <= b THEN a ELSE b

\* The last byte asked for.
RangeEnd(offset, chunk, total) == Min((offset + Min(chunk, MaxChunk) - 1) % W, (total - 1) % W)

\* What the store answers to bytes=start-end: an error when the file is not there
\* or the range lies behind it.  A range that ends before it starts is not a range,
\* for which the whole file is an answer too; it is the only answer of a store that
\* does not know Range.
RangeGet(v, p, start, end) ==
  IF v > binaries THEN Errors
  ELSE IF store = "whole" THEN {File(v, p)}
  ELSE IF end < start THEN Errors \cup {File(v, p)}
  ELSE IF start >= Sizes[v][p] THEN Errors
  ELSE {SubSeq(File(v, p), start + 1, Min(end + 1, Sizes[v][p]))}

\* The entry of the running METHOD 20, its offset and its answers.
Total   == Sizes[client.entry][ChunkPlatform(platform)]
Offset  == Len(client.buffer)
Answers == RangeGet(client.entry, ChunkPlatform(platform), Offset,
                    RangeEnd(Offset, client.chunk, Total))

\* Mutant: the last chunk is never told.
IsLastNever(offset, len, total) == FALSE

IsLast(offset, len, total) == (offset + len) % W >= total

\* The answer of METHOD 20, whose data the client appends.
Received(data) == [client EXCEPT !.pc = IF IsLast(Offset, Len(data), Total) THEN "verify" ELSE "chunk",
                                 !.entry = 0,
                                 !.buffer = client.buffer \o data]

\* The second request: the bytes.
ChunkRange ==
  /\ client # Idle /\ client.pc = "range"
  /\ \E data \in Answers : client' = Received(data)
  /\ UNCHANGED <<manifest, binaries, store, platform, installed, faults>>

\* The store answers a range it has with an error, a 5xx: the status is not read,
\* the body is the data of the chunk.
ChunkError ==
  /\ client # Idle /\ client.pc = "range"
  /\ faults < MaxFault
  /\ faults' = faults + 1
  /\ \E data \in Errors : client' = [Received(data) EXCEPT !.quiet = FALSE]
  /\ UNCHANGED <<manifest, binaries, store, platform, installed>>

\* The client compares the sha256 of METHOD 19.
Verify ==
  /\ client # Idle /\ client.pc = "verify"
  /\ installed' = IF client.buffer = File(client.release, client.platform)
                  THEN client.release ELSE installed
  /\ client' = Idle
  /\ UNCHANGED <<manifest, binaries, store, platform, faults>>

\* The manifest is answered with something else than JSON, either request finds no
\* connection or loses it under the body, or the answer to the client is lost: the
\* client starts again.
Fail ==
  /\ client # Idle /\ client.pc \in {"chunk", "range"}
  /\ faults < MaxFault
  /\ faults' = faults + 1
  /\ client' = Idle
  /\ UNCHANGED <<manifest, binaries, store, platform, installed>>

Ask == \E c \in ChunkSizes : GetUpdateManifest(platform, Empty, c) \/ GetUpdateManifest(Empty, platform, c)

Download == Ask \/ ChunkManifest \/ ChunkRange \/ Verify

Next == PublishManifest \/ PublishBinaries \/ Download \/ ChunkError \/ Fail

Spec == Init /\ [][Next]_vars

\* The pipeline completes what it has begun, and the client, which asks every
\* ten minutes, goes on.
FairSpec == /\ Spec
            /\ WF_vars(PublishManifest) /\ WF_vars(PublishBinaries)
            /\ WF_vars(Download)

-----------------------------------------------------------------------------
(* Properties *)

\* A download during which no release was published and no range was answered with
\* an error ends with exactly the bytes announced by METHOD 19, whatever the chunk
\* size, 0 included, and whether or not the store knows Range: nothing missing,
\* nothing twice, and of the same platform although METHOD 19 and METHOD 20 read it
\* from different fields.
Intact == client # Idle /\ client.pc = "verify" /\ client.quiet
            => client.buffer = File(client.release, client.platform)

\* A client gets the last release in the end, through downloads torn by
\* publications, error bodies taken for data, failed requests and binaries uploaded
\* after their manifest: what does not have the announced sha256 is not kept.
LatestInstalled == <>[](installed = Last)
=============================================================================
