--------------------------------- MODULE Paths ---------------------------------
(***************************************************************************)
(* Paths, links, external indexes and listings (kvspace.c) as functions of *)
(* the content of a store.                                                 *)
(*                                                                         *)
(* A key is a sequence of tokens: the separators '/', U+00B7 (members) and *)
(* U+2025 (runtime keys), and the letters of names.  A store is a function *)
(* from its live keys to values; what the index does to find them is the   *)
(* matter of Art.  A value is inline, a pointer to a key (Ptr) or an       *)
(* external locator (Ext); a pointer or a locator has a key as its body.   *)
(***************************************************************************)
EXTENDS Naturals, Sequences, FiniteSets, SequencesExt

CONSTANTS
  Hops,       \* links followed before giving up (16)
  FrameSlot   \* keys that name an operand of a vthread frame

ASSUME PathsAssumption == Hops \in Nat \ {0}

Slash == "/"
Dot   == "dot"    \* U+00B7
Run   == "run"    \* U+2025
Meta  == ".kvspace-meta"
Root  == <<Slash>>

Inline(b) == [ref |-> "inline", body |-> b]
Ptr(k)    == [ref |-> "ptr", body |-> k]
Ext(k)    == [ref |-> "ext", body |-> k]
NoValue   == [ref |-> "none", body |-> <<>>]

\* The local value of a key.
Value(s, k) == IF k \in DOMAIN s THEN s[k] ELSE NoValue

------------------------------------------------------------------------------
(* Strings *)

reserved_meta_path(k) ==
  /\ IsPrefix(<<Slash, Meta>>, k)
  /\ Len(k) = 2 \/ k[3] = Slash

EndsIn(k, t) == k # <<>> /\ Last(k) = t

\* The rest of k after its first n tokens.
After(k, n) == SubSeq(k, n + 1, Len(k))

pjoin(a, b) == (IF a # <<>> /\ ~EndsIn(a, Slash) THEN Append(a, Slash) ELSE a) \o b

\* Parent directory, with its '/', and name.
psplit(k) ==
  LET at == {i \in DOMAIN k : k[i] = Slash}
      last == IF at = {} THEN 0 ELSE CHOOSE i \in at : \A j \in at : j <= i
  IN [parent |-> IF last <= 1 THEN Root ELSE SubSeq(k, 1, last), name |-> After(k, last)]

bad_dir_prefix(p) == ~(EndsIn(p, Slash) \/ EndsIn(p, Dot))
edir(p)   == IF EndsIn(p, Slash) THEN p ELSE Append(p, Slash)
memdir(p) == Append(p, Dot)

\* Broken variant: everything that begins with the bytes of base.
subtree_key_bytes(base, k) == IsPrefix(IF base = <<>> THEN Root ELSE base, k)

\* Broken variant: the runtime keys are forgotten.
subtree_key_visible(base, k) ==
  subtree_key_bytes(base, k) /\ (k = base \/ base = <<>> \/ k[Len(base) + 1] \in {Slash, Dot})

\* base itself or base followed by a separator; the empty base is the root.
subtree_key(base, k) ==
  IF base = <<>>
    THEN k # <<>> /\ k[1] = Slash
    ELSE /\ IsPrefix(base, k)
         /\ k = base \/ k[Len(base) + 1] \in {Slash, Dot, Run}

\* Deltree drops one trailing '/' or U+00B7.
Base(p) == IF p # <<>> /\ ~bad_dir_prefix(p) THEN Front(p) ELSE p

DoubleSlash(k) == \E i \in 1 .. Len(k) - 1 : k[i] = Slash /\ k[i + 1] = Slash

------------------------------------------------------------------------------
(* Reading *)

is_ptr_key(s, k) == Value(s, k).ref = "ptr"

\* resolve_fetch: the key reached after n links.
Hop(s, k) ==
  LET hop[n \in 0 .. Hops] ==
        IF n = 0 THEN k
        ELSE IF is_ptr_key(s, hop[n - 1]) THEN s[hop[n - 1]].body ELSE hop[n - 1]
  IN hop

resolve_path(s, k) == Hop(s, k)[Hops]

\* What resolve_fetch finds: nothing when the links do not end in time.
resolve_fetch(s, k) ==
  IF is_ptr_key(s, Hop(s, k)[Hops - 1]) THEN NoValue ELSE Value(s, resolve_path(s, k))

\* The locator mounted at a directory, empty if there is none.
dir_ext_path(s, dir) == IF Value(s, dir).ref = "ext" THEN s[dir].body ELSE <<>>

\* Broken variant: the name is looked up in the mount point itself.
ExtKey_self(s, k) == k

\* The key that a missing key stands for when its directory is an external index.
ExtKey(s, k) ==
  LET at == psplit(k)
      ext == dir_ext_path(s, at.parent)
  IN IF ext = <<>> THEN <<>> ELSE pjoin(ext, at.name)

kvspaceShmGet(s, key, resolve) ==
  LET k == IF resolve THEN resolve_path(s, key) ELSE key
      local == IF resolve THEN resolve_fetch(s, key) ELSE Value(s, key)
  IN IF reserved_meta_path(key) THEN NoValue
     ELSE IF local # NoValue THEN local
     ELSE Value(s, ExtKey(s, k))

------------------------------------------------------------------------------
(* Listing *)

\* The name of the child of p that k is, or lies below: up to the first '/' or
\* U+00B7, and with its '/' if k is the entry of the directory itself.
ChildName(p, k) ==
  LET rest == After(k, Len(p))
      sep == {i \in DOMAIN rest : rest[i] \in {Slash, Dot}}
      n == IF sep = {} THEN Len(rest) ELSE (CHOOSE i \in sep : \A j \in sep : i <= j) - 1
  IN IF n > 0 /\ n + 1 = Len(rest) /\ rest[n + 1] = Slash THEN rest ELSE SubSeq(rest, 1, n)

\* art_scan_pfx, restricted to names that begin with a letter of L (Art.ChildrenExact).
art_scan_pfx(s, p, L) ==
  {c \in {ChildName(p, k) : k \in {k \in DOMAIN s : p \in Prefixes(k) \ {k}}} :
     c # <<>> /\ c[1] \in L}

Hidden(p, name) == (p = Root /\ name = <<Meta>>) \/ Run \in ToSet(name)

\* Sorting, hiding and dropping duplicates; of `b' and `b/' the latter stays.
Present(p, names) ==
  {n \in names : ~Hidden(p, n) /\ (Append(n, Slash) \notin names \/ Hidden(p, Append(n, Slash)))}

AnyLetter(s) == UNION {ToSet(k) : k \in DOMAIN s}

list_scan(s, p, ext) ==
  Present(p, art_scan_pfx(s, p, AnyLetter(s))
             \union (IF ext = <<>> THEN {} ELSE art_scan_pfx(s, ext, AnyLetter(s))))

\* list_target, in its two parts; 1 stands for a reserved path, 2 for an error.
TargetRc(prefix, target) ==
  IF reserved_meta_path(prefix) THEN 1
  ELSE IF bad_dir_prefix(prefix) THEN 2
  ELSE IF reserved_meta_path(target) THEN 1 ELSE 0
Target(s, prefix, resolve) == IF resolve THEN resolve_path(s, prefix) ELSE prefix
TargetExt(s, target, ex) == IF ex THEN dir_ext_path(s, edir(target)) ELSE <<>>

\* The names, as a set; nothing for a reserved path.
kvspaceShmList(s, prefix, ex, resolve) ==
  LET target == Target(s, prefix, resolve)
  IN IF TargetRc(prefix, target) # 0 THEN {}
     ELSE list_scan(s, target, TargetExt(s, target, ex))
==============================================================================
