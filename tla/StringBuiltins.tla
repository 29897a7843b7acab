--------------------------- MODULE StringBuiltins ---------------------------
(***************************************************************************)
(* E-ACSL's replacements of the string functions                           *)
(* (libc_replacements/e_acsl_string.c): each tests its arguments with the  *)
(* queries of the observation model, aborts or calls the function, and     *)
(* records what the call initialized.  The blocks of a memory m are its    *)
(* stretches between gaps, ro are its read-only bytes; a builtin is the    *)
(* record of whether it accepts the call and of what it marks then.        *)
(***************************************************************************)
EXTENDS LibcString

(* eacsl_block_length(p) - eacsl_offset(p) *)
Room(m, p) == FirstStop(Len(m) + 1 - p, LAMBDA i : At(m, p + i) = Outside)
allocated(m, p, size) == At(m, p) # Outside /\ size <= Room(m, p)
writeable(m, ro, p, size) == allocated(m, p, size) /\ p \notin ro

(* The length of the string, n bytes of it at most, or why it is refused:  *)
(* unallocated, not writable, too short for n or not terminated; n is -1   *)
(* for a string of any length.                                             *)
valid_nstring(m, ro, s, n, wrtbl) ==
  LET size == Room(m, s)
      i == FirstStop(size, LAMBDA k : At(m, s + k) = NUL \/ k = n)
  IN  IF n = 0 THEN 0
      ELSE IF ~allocated(m, s, 1) THEN -1
      ELSE IF wrtbl /\ s \in ro THEN -2
      ELSE IF i < size THEN i
      ELSE IF n = size THEN n
      ELSE IF n > size THEN -3 ELSE -4
validate_allocated_string(m, s, n) == valid_nstring(m, {}, s, n, FALSE)
validate_writeable_string(m, ro, s, n) == valid_nstring(m, ro, s, n, TRUE)

disjoint_spaces(s1, size1, s2, size2) == s1 + size1 <= s2 \/ s2 + size2 <= s1

Builtin(accepts, p, size) == [accepts |-> accepts, initializes |-> p .. p + size - 1]
Query(accepts) == Builtin(accepts, NULL, 0)

-----------------------------------------------------------------------------
eacsl_builtin_strlen(m, s) == Query(validate_allocated_string(m, s, -1) >= 0)

eacsl_builtin_strcpy(m, ro, d, s) ==
  LET size == validate_allocated_string(m, s, -1)
  IN  Builtin(size >= 0 /\ writeable(m, ro, d, size + 1) /\ disjoint_spaces(d, size + 1, s, size + 1),
              d, size + 1)

eacsl_builtin_strncpy(m, ro, d, s, n) ==
  Builtin(/\ validate_allocated_string(m, s, n) >= 0
          /\ writeable(m, ro, d, n) /\ disjoint_spaces(d, n, s, n), d, n)

eacsl_builtin_strcmp(m, s1, s2) ==
  Query(validate_allocated_string(m, s1, -1) >= 0 /\ validate_allocated_string(m, s2, -1) >= 0)
eacsl_builtin_strncmp(m, s1, s2, n) ==
  Query(validate_allocated_string(m, s1, n) >= 0 /\ validate_allocated_string(m, s2, n) >= 0)

(* Both leave to the size of the destination before the call what it must  *)
(* not share with the source.                                              *)
RoomWithoutNul(m, ro, d, s) ==   \* mutant
  LET src_sz == validate_allocated_string(m, s, -1)
      dest_sz == validate_writeable_string(m, ro, d, -1)
  IN  Builtin(/\ src_sz >= 0 /\ dest_sz >= 0
              /\ Room(m, d) >= src_sz + dest_sz
              /\ disjoint_spaces(s, src_sz + 1, d, dest_sz + 1), d + dest_sz, src_sz + 1)
eacsl_builtin_strcat(m, ro, d, s) ==
  LET src_sz == validate_allocated_string(m, s, -1)
      dest_sz == validate_writeable_string(m, ro, d, -1)
  IN  Builtin(/\ src_sz >= 0 /\ dest_sz >= 0
              /\ Room(m, d) >= src_sz + dest_sz + 1
              /\ disjoint_spaces(s, src_sz + 1, d, dest_sz + 1), d + dest_sz, src_sz + 1)
eacsl_builtin_strncat(m, ro, d, s, n) ==
  LET src_sz == validate_allocated_string(m, s, n)
      dest_sz == validate_writeable_string(m, ro, d, -1)
  IN  Builtin(/\ src_sz >= 0 /\ dest_sz >= 0
              /\ Room(m, d) >= n + dest_sz + 1
              /\ disjoint_spaces(s, n, d, dest_sz), d + dest_sz, src_sz + 1)

eacsl_builtin_memcpy(m, ro, d, s, n) ==
  Builtin(allocated(m, s, n) /\ writeable(m, ro, d, n) /\ disjoint_spaces(s, n, d, n), d, n)
eacsl_builtin_memset(m, ro, s, n) == Builtin(writeable(m, ro, s, n), s, n)
eacsl_builtin_memcmp(m, s1, s2, n) ==
  Query(allocated(m, s1, n) /\ allocated(m, s2, n) /\ disjoint_spaces(s1, n, s2, n))
eacsl_builtin_memmove(m, ro, d, s, n) ==
  Builtin(allocated(m, s, n) /\ writeable(m, ro, d, n), d, n)

-----------------------------------------------------------------------------
(* The call changes bytes the builtin then marks, none of them read-only,  *)
(* and leaves no marked byte unwritten.                                    *)
Marked(b, m, ro, r) ==
  /\ b.initializes \subseteq {p \in DOMAIN m \ ro : m[p] # Outside}
  /\ Assigns(m, r, b.initializes)
  /\ initialized(r.mem, b.initializes)

(* What a builtin lets through meets the precondition of string.h, and is  *)
(* recorded.  strcat and strncat let through a source behind the           *)
(* destination that the call overwrites: what they write is still the      *)
(* concatenation, in the room there is.                                    *)
Concatenates(m, d, s, k, r) ==
  LET l == logic_strlen(m, d)
  IN  /\ SameBytes(r.mem, d, m, d, l) /\ SameBytes(r.mem, d + l, m, s, k)
      /\ logic_strlen(r.mem, d) = l + k

LetsThrough(m, ro, d, s) ==
  /\ eacsl_builtin_strlen(m, s).accepts => valid_string(m, s)
  /\ eacsl_builtin_strcmp(m, d, s).accepts => valid_string(m, d) /\ valid_string(m, s)
  /\ LET b == eacsl_builtin_strcpy(m, ro, d, s)
     IN  b.accepts => strcpy_requires(m, d, s) /\ Marked(b, m, ro, strcpy(m, d, s))
  /\ LET b == eacsl_builtin_strcat(m, ro, d, s)
     IN  b.accepts => /\ Marked(b, m, ro, strcat(m, d, s))
                      /\ Concatenates(m, d, s, logic_strlen(m, s), strcat(m, d, s))

LetsThroughBytes(m, ro, d, s, n) ==
  /\ eacsl_builtin_strncmp(m, d, s, n).accepts =>
       valid_read_nstring(m, d, n) /\ valid_read_nstring(m, s, n)
  /\ eacsl_builtin_memcmp(m, d, s, n).accepts => valid(m, d, n) /\ valid(m, s, n)
  /\ LET b == eacsl_builtin_strncpy(m, ro, d, s, n)
     IN  b.accepts => strncpy_requires(m, d, s, n) /\ Marked(b, m, ro, strncpy(m, d, s, n))
  /\ LET b == eacsl_builtin_strncat(m, ro, d, s, n)
     IN  b.accepts => /\ Marked(b, m, ro, strncat(m, d, s, n))
                      /\ Concatenates(m, d, s, logic_strnlen(m, s, n), strncat(m, d, s, n))
  /\ LET b == eacsl_builtin_memcpy(m, ro, d, s, n)
     IN  b.accepts => memcpy_requires(m, d, s, n) /\ Marked(b, m, ro, memcpy(m, d, s, n))
  /\ LET b == eacsl_builtin_memmove(m, ro, d, s, n)
     IN  b.accepts => memmove_requires(m, d, s, n) /\ Marked(b, m, ro, memmove(m, d, s, n))
  /\ LET b == eacsl_builtin_memset(m, ro, s, n)
     IN  b.accepts => valid(m, s, n) /\ Marked(b, m, ro, memset(m, s, NUL, n))
=============================================================================
