----------------------------- MODULE ImageFile -----------------------------
(***************************************************************************)
(* Finding the digest of a signed image (runtt-smp/src/mcuboot.rs).  A     *)
(* file is a sequence of units, each standing for one thing the walk reads *)
(* or skips: the header, a piece of the body, the four bytes that open a   *)
(* TLV area or an entry, and the 32 bytes of a digest.  Sizes and offsets  *)
(* count units; offsets start at 0 as in the code.                         *)
(***************************************************************************)
EXTENDS Naturals, Sequences

CONSTANT NoDigest   \* Option::None

HEADER_LEN == 1
SHA_LEN == 1

\* What the code reads at an offset: a type or magic, and a 16-bit number.
Kind(image, at) == image[at + 1].tag
Number(image, at) == image[at + 1].n

Least(a, b) == IF a < b THEN a ELSE b

\* Mutant: entries may run to the end of the file instead of the area's.
EntriesUnbounded(image, start) ==
  LET area_end == Least(start + Number(image, start), Len(image))
      found[at \in 0..Len(image)] ==
        LET data_at == at + 1
            len == Number(image, at)
        IN IF at + 1 > Len(image) THEN [digest |-> NoDigest, then |-> area_end]
           ELSE IF data_at + len > Len(image) THEN [digest |-> NoDigest, then |-> Len(image)]
           ELSE IF Kind(image, at) = "sha" /\ len = SHA_LEN
           THEN [digest |-> Kind(image, data_at), then |-> area_end]
           ELSE found[data_at + len]
  IN found[start + 1]

(* The while loop over the entries of the area at start: the digest found, *)
(* if any, and where the search goes on when none is.  An entry that runs  *)
(* past the file ends the search for good.                                 *)
Entries(image, start) ==
  LET area_end == Least(start + Number(image, start), Len(image))
      found[at \in 0..Len(image)] ==
        LET data_at == at + 1
            len == Number(image, at)
        IN IF at + 1 > area_end THEN [digest |-> NoDigest, then |-> area_end]
           ELSE IF data_at + len > Len(image) THEN [digest |-> NoDigest, then |-> Len(image)]
           ELSE IF Kind(image, at) = "sha" /\ len = SHA_LEN
           THEN [digest |-> Kind(image, data_at), then |-> area_end]
           ELSE found[data_at + len]
  IN found[start + 1]

(* find_sha256.  The call on the area behind a protected one is the        *)
(* recursion; a protected area of size zero would be its own successor,    *)
(* and for that the code has no end (see the README).                      *)
find_sha256(image, start) ==
  LET from[s \in 0..Len(image)] ==
        IF s + 1 > Len(image) \/ Kind(image, s) \notin {"plain", "protected"} THEN NoDigest
        ELSE LET e == Entries(image, s)
             IN IF e.digest # NoDigest \/ Kind(image, s) = "plain" \/ e.then = s
                THEN e.digest
                ELSE from[e.then]
  IN IF start > Len(image) THEN NoDigest ELSE from[start]

(* parse: the unprotected area is tried first; where nothing is found      *)
(* there and a protected area was declared, the search starts at the end   *)
(* of the body.                                                            *)
parse(image) ==
  IF Len(image) < HEADER_LEN \/ image[1].tag # "image" THEN NoDigest
  ELSE LET body_end == image[1].n + image[1].body
           digest == find_sha256(image, body_end + image[1].prot)
       IN IF digest = NoDigest /\ image[1].prot # 0
          THEN find_sha256(image, body_end) ELSE digest

-----------------------------------------------------------------------------
(* How imgtool lays a file out, for stating what the parser should find.   *)

\* Where the entry at p ends.
Behind(f, p) == p + 1 + Number(f, p)

IsDigest(f, p) == Kind(f, p) = "sha" /\ Number(f, p) = SHA_LEN

\* From one end to the other there are the entries that begin in E, and nothing else.
Filled(f, from, to, E) ==
  /\ from = to \/ from \in E
  /\ \A p \in E : Behind(f, p) = to \/ Behind(f, p) \in E
  /\ \A p, q \in E : p < q => Behind(f, p) <= q

AreaAt(f, kind, from, to, E) ==
  /\ from < to /\ to <= Len(f)
  /\ Kind(f, from) = kind /\ from + Number(f, from) = to
  /\ Filled(f, from + 1, to, E)

(* f is a signed file with digest d, or, if d is NoDigest, one whose areas *)
(* carry none: header and body, a protected area if the header declares    *)
(* one, and an area up to the end of the file.  It has one digest.         *)
LaidOut(f, d) ==
  /\ f # <<>> /\ f[1] \in [tag : {"image"}, n : Nat, body : Nat, prot : Nat]
  /\ LET body_end == f[1].n + f[1].body
         plain == body_end + f[1].prot
     IN /\ 0 < body_end /\ plain < Len(f)
        /\ \E P \in SUBSET (body_end + 1..plain - 1), E \in SUBSET (plain + 1..Len(f) - 1) :
             /\ IF plain = body_end THEN P = {} ELSE AreaAt(f, "protected", body_end, plain, P)
             /\ AreaAt(f, "plain", plain, Len(f), E)
             /\ {Kind(f, p + 1) : p \in {q \in P \cup E : IsDigest(f, q)}}
                  = IF d = NoDigest THEN {} ELSE {d}

\* An entry is a digest or something else with len units of data.
Sha(d) == << [tag |-> "sha", n |-> SHA_LEN], [tag |-> d, n |-> 0] >>
Other(len) == << [tag |-> "other", n |-> len] >> \o [i \in 1..len |-> [tag |-> "data", n |-> 0]]

Area(kind, entries) == << [tag |-> kind, n |-> Len(entries) + 1] >> \o entries

\* A header, one unit of body, a protected area unless it has no entries.
Layout(protected, plain) ==
  LET area == IF protected = <<>> THEN <<>> ELSE Area("protected", protected)
  IN << [tag |-> "image", n |-> 1, body |-> 1, prot |-> Len(area)] >>
     \o << [tag |-> "data", n |-> 0] >> \o area \o Area("plain", plain)
=============================================================================
