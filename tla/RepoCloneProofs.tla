-------------------------- MODULE RepoCloneProofs --------------------------
(***************************************************************************)
(* What repo clone and repo pick guarantee for every number of commands,   *)
(* workspaces, repositories, hosts and paths.                              *)
(***************************************************************************)
EXTENDS RepoClone, RegistryProofs, SelectionProofs

-----------------------------------------------------------------------------
(* Which repository a remote names. *)

Tokens == Words \cup {":", "/", "@", ".git"}

LEMMA WordsAreNoTokens ==
    ASSUME NEW w \in Words
    PROVE  w # ":" /\ w # "/" /\ w # "@" /\ w # ".git" /\ w \in Tokens
  BY RemoteAssumption DEF Tokens

LEMMA Slice ==
    ASSUME NEW S, NEW s, NEW t \in Seq(S), NEW m \in Int, NEW n \in Int,
           Len(t) = IF m <= n THEN n - m + 1 ELSE 0,
           \A i \in 1 .. Len(t) : t[i] = s[m + i - 1]
    PROVE  SubSeq(s, m, n) = t
  <1>1. \A i \in m .. n : s[i] \in S
    <2> TAKE i \in m .. n
    <2>1. i - m + 1 \in 1 .. Len(t) /\ m + (i - m + 1) - 1 = i
      OBVIOUS
    <2> QED BY <2>1, LenProperties
  <1>2. /\ SubSeq(s, m, n) \in Seq(S)
        /\ Len(SubSeq(s, m, n)) = Len(t)
        /\ \A i \in 1 .. n - m + 1 : SubSeq(s, m, n)[i] = s[m + i - 1]
    BY <1>1, SubSeqProperties
  <1>3. \A i \in 1 .. Len(t) : SubSeq(s, m, n)[i] = t[i]
    BY <1>2
  <1> QED BY <1>2, <1>3, SeqEqual

(* Short texts, element by element.                                        *)
LEMMA OneElement ==
    ASSUME NEW s, NEW m \in Int, NEW n \in Int, n = m
    PROVE  SubSeq(s, m, n) = <<s[m]>>
  <1> DEFINE S == {s[m]}
             t == <<s[m]>>
  <1>1. /\ t \in Seq(S) /\ Len(t) = 1
        /\ t[1] = s[m]
    OBVIOUS
  <1> HIDE DEF S, t
  <1>2. \A i \in 1 .. 1 : t[i] = s[m + i - 1]
    <2> TAKE i \in 1 .. 1
    <2>1. i = 1 /\ m + i - 1 = m
      OBVIOUS
    <2> QED BY <1>1, <2>1
  <1>3. /\ Len(t) = IF m <= n THEN n - m + 1 ELSE 0
        /\ \A i \in 1 .. Len(t) : t[i] = s[m + i - 1]
    BY <1>1, <1>2
  <1>4. SubSeq(s, m, n) = t
    BY <1>1, <1>3, Slice
  <1> QED BY <1>4 DEF t

LEMMA ThreeElements ==
    ASSUME NEW s, NEW m \in Int, NEW n \in Int, n - m = 2
    PROVE  SubSeq(s, m, n) = <<s[m], s[m + 1], s[m + 2]>>
  <1> DEFINE S == {s[m], s[m + 1], s[m + 2]}
             t == <<s[m], s[m + 1], s[m + 2]>>
  <1>1. /\ t \in Seq(S) /\ Len(t) = 3
        /\ t[1] = s[m] /\ t[2] = s[m + 1] /\ t[3] = s[m + 2]
    OBVIOUS
  <1> HIDE DEF S, t
  <1>2. \A i \in 1 .. 3 : t[i] = s[m + i - 1]
    <2> TAKE i \in 1 .. 3
    <2>1. \/ i = 1 /\ m + i - 1 = m
          \/ i = 2 /\ m + i - 1 = m + 1
          \/ i = 3 /\ m + i - 1 = m + 2
      OBVIOUS
    <2> QED BY <1>1, <2>1
  <1>3. /\ Len(t) = IF m <= n THEN n - m + 1 ELSE 0
        /\ \A i \in 1 .. Len(t) : t[i] = s[m + i - 1]
    BY <1>1, <1>2
  <1>4. SubSeq(s, m, n) = t
    BY <1>1, <1>3, Slice
  <1> QED BY <1>4 DEF t

LEMMA FourElements ==
    ASSUME NEW s, NEW m \in Int, NEW n \in Int, n - m = 3
    PROVE  SubSeq(s, m, n) = <<s[m], s[m + 1], s[m + 2], s[m + 3]>>
  <1> DEFINE S == {s[m], s[m + 1], s[m + 2], s[m + 3]}
             t == <<s[m], s[m + 1], s[m + 2], s[m + 3]>>
  <1>1. /\ t \in Seq(S) /\ Len(t) = 4
        /\ t[1] = s[m] /\ t[2] = s[m + 1] /\ t[3] = s[m + 2] /\ t[4] = s[m + 3]
    OBVIOUS
  <1> HIDE DEF S, t
  <1>2. \A i \in 1 .. 4 : t[i] = s[m + i - 1]
    <2> TAKE i \in 1 .. 4
    <2>1. \/ i = 1 /\ m + i - 1 = m
          \/ i = 2 /\ m + i - 1 = m + 1
          \/ i = 3 /\ m + i - 1 = m + 2
          \/ i = 4 /\ m + i - 1 = m + 3
      OBVIOUS
    <2> QED BY <1>1, <2>1
  <1>3. /\ Len(t) = IF m <= n THEN n - m + 1 ELSE 0
        /\ \A i \in 1 .. Len(t) : t[i] = s[m + i - 1]
    BY <1>1, <1>2
  <1>4. SubSeq(s, m, n) = t
    BY <1>1, <1>3, Slice
  <1> QED BY <1>4 DEF t

LEMMA FiveElements ==
    ASSUME NEW s, NEW m \in Int, NEW n \in Int, n - m = 4
    PROVE  SubSeq(s, m, n) = <<s[m], s[m + 1], s[m + 2], s[m + 3], s[m + 4]>>
  <1> DEFINE S == {s[m], s[m + 1], s[m + 2], s[m + 3], s[m + 4]}
             t == <<s[m], s[m + 1], s[m + 2], s[m + 3], s[m + 4]>>
  <1>1. /\ t \in Seq(S) /\ Len(t) = 5
        /\ t[1] = s[m] /\ t[2] = s[m + 1] /\ t[3] = s[m + 2] /\ t[4] = s[m + 3] /\ t[5] = s[m + 4]
    OBVIOUS
  <1> HIDE DEF S, t
  <1>2. \A i \in 1 .. 5 : t[i] = s[m + i - 1]
    <2> TAKE i \in 1 .. 5
    <2>1. \/ i = 1 /\ m + i - 1 = m
          \/ i = 2 /\ m + i - 1 = m + 1
          \/ i = 3 /\ m + i - 1 = m + 2
          \/ i = 4 /\ m + i - 1 = m + 3
          \/ i = 5 /\ m + i - 1 = m + 4
      OBVIOUS
    <2> QED BY <1>1, <2>1
  <1>3. /\ Len(t) = IF m <= n THEN n - m + 1 ELSE 0
        /\ \A i \in 1 .. Len(t) : t[i] = s[m + i - 1]
    BY <1>1, <1>2
  <1>4. SubSeq(s, m, n) = t
    BY <1>1, <1>3, Slice
  <1> QED BY <1>4 DEF t

(* The bounds at which they are used.                                      *)
LEMMA Bounds ==
    /\ {1, 2, 3, 4, 5, 6, 8, 9, 10} \subseteq Int
    /\ 3 - 1 = 2 /\ 4 - 1 = 3 /\ 4 - 2 = 2 /\ 5 - 2 = 3
    /\ 8 - 5 = 3 /\ 9 - 6 = 3 /\ 10 - 6 = 4
  OBVIOUS

LEMMA Behind ==
    ASSUME NEW S, NEW s \in Seq(S), NEW k \in 0 .. Len(s)
    PROVE  /\ After(k, s) \in Seq(S) /\ Len(After(k, s)) = Len(s) - k
           /\ \A i \in 1 .. Len(s) - k : After(k, s)[i] = s[k + i]
  <1>1. /\ Len(s) \in Nat /\ k \in Nat /\ k <= Len(s)
        /\ \A i \in k + 1 .. Len(s) : s[i] \in S
    BY LenProperties
  <1>2. /\ After(k, s) \in Seq(S)
        /\ Len(After(k, s)) = IF k + 1 <= Len(s) THEN Len(s) - (k + 1) + 1 ELSE 0
        /\ \A i \in 1 .. Len(s) - (k + 1) + 1 : After(k, s)[i] = s[(k + 1) + i - 1]
    BY <1>1, SubSeqProperties DEF After
  <1>3. Len(After(k, s)) = Len(s) - k
    BY <1>1, <1>2
  <1>4. \A i \in 1 .. Len(s) - k : After(k, s)[i] = s[k + i]
    <2> TAKE i \in 1 .. Len(s) - k
    <2>1. i \in 1 .. Len(s) - (k + 1) + 1 /\ (k + 1) + i - 1 = k + i
      BY <1>1
    <2> QED BY <1>2, <2>1
  <1> QED BY <1>2, <1>3, <1>4

LEMMA BehindBehind ==
    ASSUME NEW S, NEW s \in Seq(S), NEW k \in 0 .. Len(s), NEW m \in 0 .. Len(s) - k
    PROVE  After(m, After(k, s)) = After(k + m, s)
  <1>1. Len(s) \in Nat /\ k \in Nat /\ m \in Nat /\ k + m \in 0 .. Len(s)
    BY LenProperties
  <1>2. /\ After(k, s) \in Seq(S) /\ Len(After(k, s)) = Len(s) - k
        /\ \A i \in 1 .. Len(s) - k : After(k, s)[i] = s[k + i]
    BY Behind
  <1>3. /\ After(m, After(k, s)) \in Seq(S)
        /\ Len(After(m, After(k, s))) = Len(s) - k - m
        /\ \A i \in 1 .. Len(s) - k - m : After(m, After(k, s))[i] = After(k, s)[m + i]
    <2>1. m \in 0 .. Len(After(k, s))
      BY <1>1, <1>2
    <2>2. /\ After(m, After(k, s)) \in Seq(S)
          /\ Len(After(m, After(k, s))) = Len(After(k, s)) - m
          /\ \A i \in 1 .. Len(After(k, s)) - m : After(m, After(k, s))[i] = After(k, s)[m + i]
      BY <1>2, <2>1, Behind
    <2> QED BY <1>2, <2>2
  <1>4. /\ After(k + m, s) \in Seq(S) /\ Len(After(k + m, s)) = Len(s) - (k + m)
        /\ \A i \in 1 .. Len(s) - (k + m) : After(k + m, s)[i] = s[(k + m) + i]
    BY <1>1, Behind
  <1>5. \A i \in 1 .. Len(s) - k - m : After(m, After(k, s))[i] = After(k + m, s)[i]
    <2> TAKE i \in 1 .. Len(s) - k - m
    <2>1. /\ m + i \in 1 .. Len(s) - k /\ i \in 1 .. Len(s) - (k + m)
          /\ k + (m + i) = (k + m) + i
      BY <1>1
    <2> QED BY <1>2, <1>3, <1>4, <2>1
  <1>6. Len(s) - k - m = Len(s) - (k + m)
    BY <1>1
  <1> QED BY <1>3, <1>4, <1>5, <1>6, SeqEqual

(* A URL is the identity of what is behind its scheme and its host.        *)
LEMMA URLRemote ==
    ASSUME NEW s \in Words, NEW text \in Seq(Tokens), Len(text) >= 6, text[1] = "https",
           text[2] = ":", text[3] = "/", text[4] = "/", text[5] = s, text[6] = "/"
    PROVE  NormalizeRemote(text) = Identity(<<s>>, After(5, text))
  <1>0. Len(text) \in Nat /\ DOMAIN text = 1 .. Len(text)
    BY LenProperties
  <1>1. "https" \in Words /\ "https" \notin Ports
    BY CloneAssumption
  <1>2. 2 \in Positions(":", text) /\ 1 \notin Positions(":", text)
    BY <1>0, <1>1, WordsAreNoTokens DEF Positions
  <1>3. Leftmost(Positions(":", text)) = 2
    <2>1. /\ Positions(":", text) \subseteq Nat
          /\ \A j \in Positions(":", text) : 2 <= j
      BY <1>0, <1>2 DEF Positions
    <2>2. \A i \in Positions(":", text) : (\A j \in Positions(":", text) : i <= j) => i = 2
      BY <1>2, <2>1
    <2> QED BY <1>2, <2>1, <2>2 DEF Leftmost
  <1> DEFINE h == After(2, text)
  <1>4. /\ h \in Seq(Tokens) /\ Len(h) = Len(text) - 2
        /\ h[1] = "/" /\ h[2] = "/"
    <2>1. 2 \in 0 .. Len(text) /\ 2 + 1 = 3 /\ 2 + 2 = 4
      BY <1>0
    <2>2. /\ h \in Seq(Tokens) /\ Len(h) = Len(text) - 2
          /\ \A i \in 1 .. Len(text) - 2 : h[i] = text[2 + i]
      BY <2>1, Behind
    <2>3. Len(text) \in Nat /\ 1 \in 1 .. Len(text) - 2 /\ 2 \in 1 .. Len(text) - 2
      BY <1>0
    <2> HIDE DEF h
    <2>4. h[1] = text[3] /\ h[2] = text[4]
      BY <2>1, <2>2, <2>3
    <2> QED BY <2>2, <2>4
  <1>5. HasAuthority(h)
    BY <1>0, <1>4 DEF HasAuthority
  <1>6. ~IsScp(text)
    BY <1>2, <1>5 DEF IsScp
  <1>7. Before(2, text) = <<"https">>
    <2>1. Before(2, text) = SubSeq(text, 1, 1)
      BY DEF Before
    <2> QED BY <1>1, <2>1, OneElement
  <1>8. Hierarchy(text) = h
    <2>1. ToSet(<<"https">>) \subseteq Words
      BY <1>1 DEF ToSet
    <2> QED BY <1>1, <1>2, <1>3, <1>7, <2>1 DEF Hierarchy
  <1> DEFINE rest == After(2, h)
  <1>9. rest = After(4, text)
    BY <1>0, BehindBehind
  <1>10. /\ rest \in Seq(Tokens) /\ Len(rest) = Len(text) - 4 /\ DOMAIN rest = 1 .. Len(rest)
         /\ rest[1] = s /\ rest[2] = "/"
    <2>1. 4 \in 0 .. Len(text) /\ 4 + 1 = 5 /\ 4 + 2 = 6
      BY <1>0
    <2>2. /\ rest \in Seq(Tokens) /\ Len(rest) = Len(text) - 4
          /\ \A i \in 1 .. Len(text) - 4 : rest[i] = text[4 + i]
      BY <1>9, <2>1, Behind
    <2>3. Len(text) \in Nat /\ 1 \in 1 .. Len(text) - 4 /\ 2 \in 1 .. Len(text) - 4
      BY <1>0
    <2> HIDE DEF rest
    <2>4. rest[1] = text[5] /\ rest[2] = text[6]
      BY <2>1, <2>2, <2>3
    <2> QED BY <2>2, <2>4, LenProperties
  <1> HIDE DEF h, rest
  <1> DEFINE ends == Positions("/", rest) \cup {Len(rest) + 1}
  <1>11. Leftmost(ends) = 2
    <2>1. 2 \in ends /\ ends \subseteq Nat /\ \A j \in ends : 2 <= j
      BY <1>0, <1>10, WordsAreNoTokens DEF Positions
    <2>2. \A i \in ends : (\A j \in ends : i <= j) => i = 2
      BY <2>1
    <2> QED BY <2>1, <2>2 DEF Leftmost
  <1>12. Before(2, rest) = <<s>>
    <2>1. Before(2, rest) = SubSeq(rest, 1, 1)
      BY DEF Before
    <2> QED BY <1>10, <2>1, OneElement
  <1>13. Hostname(<<s>>) = <<s>> /\ <<s>> # <<>>
    <2>1. Positions("@", <<s>>) \cup {0} = {0} /\ Positions(":", <<s>>) = {}
      BY WordsAreNoTokens DEF Positions
    <2>2. Rightmost({0}) = 0
      BY DEF Rightmost
    <2>3. After(0, <<s>>) = <<s>>
      <3>1. After(0, <<s>>) = SubSeq(<<s>>, 1, 1)
        BY DEF After
      <3> QED BY <3>1, OneElement
    <2> QED BY <2>1, <2>2, <2>3 DEF Hostname
  <1>14. SubSeq(rest, 2, Len(rest)) = After(5, text)
    <2>1. After(1, rest) = After(5, text)
      BY <1>0, <1>9, BehindBehind
    <2> QED BY <2>1 DEF After
  <1>15. NormalizeRemote(text) = Identity(<<s>>, SubSeq(rest, 2, Len(rest)))
    BY <1>5, <1>6, <1>8, <1>11, <1>12, <1>13 DEF NormalizeRemote, rest
  <1> QED BY <1>14, <1>15

(* host:path is the identity of what is behind the colon.                  *)
LEMMA ScpRemote ==
    ASSUME NEW s \in Words, NEW text \in Seq(Tokens), Len(text) >= 5, text[1] = "git",
           text[2] = "@", text[3] = s, text[4] = ":", text[5] \in Words,
           \A i \in 5 .. Len(text) : text[i] # ":"
    PROVE  NormalizeRemote(text) = Identity(<<s>>, After(4, text))
  <1>0. Len(text) \in Nat /\ DOMAIN text = 1 .. Len(text)
    BY LenProperties
  <1>1. "git" \in Words
    BY CloneAssumption
  <1>2. Positions(":", text) = {4}
    BY <1>0, <1>1, WordsAreNoTokens DEF Positions
  <1>3. Leftmost({4}) = 4 /\ Leftmost({2}) = 2
    BY DEF Leftmost
  <1>4. Before(4, text) = <<"git", "@", s>>
    <2>1. /\ {"git", "@", s} \subseteq Tokens /\ text[1 + 1] = "@" /\ text[1 + 2] = s
          /\ 1 + 2 = 3 /\ 4 - 1 = 3
      BY <1>1, WordsAreNoTokens DEF Tokens
    <2>2. SubSeq(text, 1, 1 + 2) = <<"git", "@", s>>
      <3>1. "git" \in Tokens /\ "@" \in Tokens /\ s \in Tokens
        BY <2>1
      <3>2. SubSeq(text, 1, 3) = <<text[1], text[1 + 1], text[1 + 2]>>
        BY Bounds, ThreeElements, Zenon
      <3> QED BY <2>1, <3>1, <3>2
    <2> QED BY <2>1, <2>2 DEF Before
  <1> DEFINE address == <<"git", "@", s>>
  <1>5. Positions("@", address) = {2} /\ Len(address) = 3 /\ address[3] = s
    BY <1>1, WordsAreNoTokens DEF Positions
  <1> HIDE DEF address
  <1>6. After(2, address) = <<s>> /\ <<s>> # <<>>
    <2>1. After(2, address) = SubSeq(address, 3, 3)
      BY <1>5 DEF After
    <2> QED BY <1>5, <2>1, OneElement
  <1>7. ~HasAuthority(After(4, text))
    <2>1. After(4, text)[1] = text[5]
      <3>1. 4 \in 0 .. Len(text) /\ 1 \in 1 .. Len(text) - 4 /\ 4 + 1 = 5
        BY <1>0
      <3>2. \A i \in 1 .. Len(text) - 4 : After(4, text)[i] = text[4 + i]
        BY <3>1, Behind
      <3> QED BY <3>1, <3>2
    <2> QED BY <2>1, WordsAreNoTokens DEF HasAuthority
  <1>8. IsScp(text)
    BY <1>2, <1>3, <1>4, <1>5, <1>6, <1>7 DEF IsScp, address
  <1> QED BY <1>2, <1>3, <1>4, <1>5, <1>6, <1>8 DEF NormalizeRemote, address

LEMMA PathIdentity ==
    ASSUME NEW s \in Words, Lower[s] = s, NEW o \in Words, NEW n \in Words,
           NEW path \in {<<"/", o, "/", n>>, <<"/", o, "/", n, ".git">>, <<o, "/", n, ".git">>}
    PROVE  Identity(<<s>>, path) = [host |-> <<s>>, owner |-> <<o>>, name |-> <<n>>]
  <1>1. Trimmed(path) = <<o, "/", n>>
    <2>0. {o, "/", n, ".git"} \subseteq Tokens
      BY WordsAreNoTokens DEF Tokens
    <2>1. CASE path = <<"/", o, "/", n>>
      <3>1. {i \in DOMAIN path : path[i] \notin {"/"}} = {2, 4}
        BY <2>1, WordsAreNoTokens
      <3>2. Leftmost({2, 4}) = 2 /\ Rightmost({2, 4}) = 4
        BY DEF Leftmost, Rightmost
      <3>3. Strip(path, {"/"}) = SubSeq(path, 2, 4)
        BY <3>1, <3>2 DEF Strip
      <3>4. SubSeq(path, 2, 4) = <<path[2], path[2 + 1], path[2 + 2]>>
        BY Bounds, ThreeElements, Zenon
      <3>5. SubSeq(path, 2, 4) = <<o, "/", n>>
        BY <2>1, <3>4
      <3>6. Last(<<o, "/", n>>) = n
        BY DEF Last
      <3> QED BY <3>3, <3>5, <3>6, WordsAreNoTokens DEF Trimmed, TrimSuffix
    <2>2. CASE path = <<"/", o, "/", n, ".git">>
      <3>1. {i \in DOMAIN path : path[i] \notin {"/"}} = {2, 4, 5}
        BY <2>2, WordsAreNoTokens
      <3>2. Leftmost({2, 4, 5}) = 2 /\ Rightmost({2, 4, 5}) = 5
        BY DEF Leftmost, Rightmost
      <3>3. Strip(path, {"/"}) = SubSeq(path, 2, 5)
        BY <3>1, <3>2 DEF Strip
      <3>4. SubSeq(path, 2, 5) = <<path[2], path[2 + 1], path[2 + 2], path[2 + 3]>>
        BY Bounds, FourElements, Zenon
      <3>5. SubSeq(path, 2, 5) = <<o, "/", n, ".git">>
        BY <2>2, <3>4
      <3>6. Last(<<o, "/", n, ".git">>) = ".git" 
        BY DEF Last
      <3>7. Before(4, <<o, "/", n, ".git">>) = <<o, "/", n>>
        BY <2>0, ThreeElements DEF Before
      <3>8. Trimmed(path) = TrimSuffix(<<o, "/", n, ".git">>)
        BY <3>3, <3>5 DEF Trimmed
      <3>9. TrimSuffix(<<o, "/", n, ".git">>) = Before(4, <<o, "/", n, ".git">>)
        BY <3>6 DEF TrimSuffix
      <3> QED BY <3>7, <3>8, <3>9
    <2>3. CASE path = <<o, "/", n, ".git">>
      <3>1. {i \in DOMAIN path : path[i] \notin {"/"}} = {1, 3, 4}
        BY <2>3, WordsAreNoTokens
      <3>2. Leftmost({1, 3, 4}) = 1 /\ Rightmost({1, 3, 4}) = 4
        BY DEF Leftmost, Rightmost
      <3>3. Strip(path, {"/"}) = SubSeq(path, 1, 4)
        BY <3>1, <3>2 DEF Strip
      <3>4. SubSeq(path, 1, 4) = <<path[1], path[1 + 1], path[1 + 2], path[1 + 3]>>
        BY Bounds, FourElements, Zenon
      <3>5. SubSeq(path, 1, 4) = <<o, "/", n, ".git">>
        BY <2>3, <3>4
      <3>6. Last(<<o, "/", n, ".git">>) = ".git"
        BY DEF Last
      <3>7. Before(4, <<o, "/", n, ".git">>) = <<o, "/", n>>
        BY <2>0, ThreeElements DEF Before
      <3>8. Trimmed(path) = TrimSuffix(<<o, "/", n, ".git">>)
        BY <3>3, <3>5 DEF Trimmed
      <3>9. TrimSuffix(<<o, "/", n, ".git">>) = Before(4, <<o, "/", n, ".git">>)
        BY <3>6 DEF TrimSuffix
      <3> QED BY <3>7, <3>8, <3>9
    <2> QED BY <2>1, <2>2, <2>3
  <1> DEFINE t == <<o, "/", n>>
  <1>2. Positions("/", t) = {2} /\ Len(t) = 3 /\ t[1] = o /\ t[3] = n
    BY WordsAreNoTokens DEF Positions
  <1>3. Leftmost({2}) = 2
    BY DEF Leftmost
  <1> HIDE DEF t
  <1>4. Before(2, t) = <<o>> /\ After(2, t) = <<n>>
    <2>1. Before(2, t) = SubSeq(t, 1, 1) /\ After(2, t) = SubSeq(t, 3, 3)
      BY <1>2 DEF Before, After
    <2> QED BY <1>2, <2>1, OneElement
  <1>5. LowerCase(<<s>>) = <<s>>
    BY DEF LowerCase
  <1>6. Trimmed(path) = t
    BY <1>1 DEF t
  <1> QED BY SMTT(30), <1>2, <1>3, <1>4, <1>5, <1>6 DEF Identity

LEMMA URLIdentity ==
    ASSUME NEW s \in Sources, NEW key \in ExternalKeys,
           NEW text \in {URL(s, key), URL(s, key) \o <<".git">>}
    PROVE  NormalizeRemote(text) = [host |-> <<s>>, owner |-> <<OwnerOf[key]>>,
                                    name |-> <<NameOf[key]>>]
  <1> DEFINE o == OwnerOf[key]
             n == NameOf[key]
             url == URL(s, key)
             suffix == <<".git">>
  <1>1. s \in Words /\ Lower[s] = s /\ o \in Words /\ n \in Words /\ "https" \in Words
    BY CloneAssumption
  <1>2. /\ url \in Seq(Tokens) /\ Len(url) = 9
        /\ url[1] = "https" /\ url[2] = ":" /\ url[3] = "/" /\ url[4] = "/" /\ url[5] = s
        /\ url[6] = "/" /\ url[7] = o /\ url[8] = "/" /\ url[9] = n
    BY <1>1 DEF Tokens, URL
  <1>3. suffix \in Seq(Tokens) /\ Len(suffix) = 1 /\ suffix[1] = ".git"
    BY DEF Tokens
  <1> HIDE DEF url, suffix
  <1> DEFINE git == url \o suffix
  <1>4. /\ git \in Seq(Tokens) /\ Len(git) = 10
        /\ \A i \in 1 .. 9 : git[i] = url[i]
        /\ git[10] = ".git"
    <2>1. /\ git \in Seq(Tokens) /\ Len(git) = Len(url) + Len(suffix)
          /\ \A i \in 1 .. Len(url) + Len(suffix) :
                git[i] = IF i <= Len(url) THEN url[i] ELSE suffix[i - Len(url)]
      BY <1>2, <1>3, ConcatProperties
    <2> HIDE DEF git
    <2>2. Len(git) = 10 /\ \A i \in 1 .. 9 : git[i] = url[i]
      BY <1>2, <1>3, <2>1
    <2>3. git[10] = suffix[1]
      <3>1. 10 \in 1 .. Len(url) + Len(suffix) /\ ~(10 <= Len(url)) /\ 10 - Len(url) = 1
        BY <1>2, <1>3
      <3> QED BY <2>1, <3>1
    <2> QED BY <1>3, <2>1, <2>2, <2>3
  <1> HIDE DEF git, o, n
  <1>5. /\ git[1] = "https" /\ git[2] = ":" /\ git[3] = "/" /\ git[4] = "/" /\ git[5] = s
        /\ git[6] = "/" /\ git[7] = o /\ git[8] = "/" /\ git[9] = n
    BY <1>2, <1>4
  <1>6. NormalizeRemote(url) = [host |-> <<s>>, owner |-> <<o>>, name |-> <<n>>]
    <2>1. NormalizeRemote(url) = Identity(<<s>>, After(5, url))
      BY <1>1, <1>2, URLRemote
    <2>2. After(5, url) = SubSeq(url, 6, 9)
      BY <1>2 DEF After
    <2>3. SubSeq(url, 6, 9) = <<url[6], url[6 + 1], url[6 + 2], url[6 + 3]>>
      BY Bounds, FourElements, Zenon
    <2>4. SubSeq(url, 6, 9) = <<"/", o, "/", n>>
      BY <1>2, <2>3
    <2>5. Identity(<<s>>, <<"/", o, "/", n>>) = [host |-> <<s>>, owner |-> <<o>>, name |-> <<n>>]
      BY <1>1, PathIdentity
    <2> QED BY <2>1, <2>2, <2>4, <2>5
  <1>7. NormalizeRemote(git) = [host |-> <<s>>, owner |-> <<o>>, name |-> <<n>>]
    <2>1. NormalizeRemote(git) = Identity(<<s>>, After(5, git))
      BY <1>1, <1>4, <1>5, URLRemote
    <2>2. After(5, git) = SubSeq(git, 6, 10)
      BY <1>4 DEF After
    <2>3. SubSeq(git, 6, 10) = <<git[6], git[6 + 1], git[6 + 2], git[6 + 3], git[6 + 4]>>
      BY Bounds, FiveElements, Zenon
    <2>4. SubSeq(git, 6, 10) = <<"/", o, "/", n, ".git">>
      BY <1>4, <1>5, <2>3
    <2>5. Identity(<<s>>, <<"/", o, "/", n, ".git">>)
            = [host |-> <<s>>, owner |-> <<o>>, name |-> <<n>>]
      BY <1>1, PathIdentity
    <2> QED BY <2>1, <2>2, <2>4, <2>5
  <1> QED BY <1>6, <1>7 DEF git, url, suffix, o, n

LEMMA ScpIdentity ==
    ASSUME NEW s \in Sources, NEW key \in ExternalKeys,
           NEW text, text = <<"git", "@", s, ":", OwnerOf[key], "/", NameOf[key], ".git">>
    PROVE  NormalizeRemote(text) = [host |-> <<s>>, owner |-> <<OwnerOf[key]>>,
                                    name |-> <<NameOf[key]>>]
  <1> DEFINE o == OwnerOf[key]
             n == NameOf[key]
  <1>1. s \in Words /\ Lower[s] = s /\ o \in Words /\ n \in Words /\ "git" \in Words
    BY CloneAssumption
  <1>2. /\ text \in Seq(Tokens) /\ Len(text) = 8
        /\ text[1] = "git" /\ text[2] = "@" /\ text[3] = s /\ text[4] = ":"
        /\ text[5] = o /\ text[6] = "/" /\ text[7] = n /\ text[8] = ".git"
    BY <1>1 DEF Tokens
  <1>3. \A i \in 5 .. Len(text) : text[i] # ":"
    BY <1>1, <1>2, WordsAreNoTokens
  <1>4. NormalizeRemote(text) = Identity(<<s>>, After(4, text))
    <2>1. Len(text) >= 5 /\ text[5] \in Words
      BY <1>1, <1>2
    <2> QED BY <1>1, <1>2, <1>3, <2>1, ScpRemote
  <1>5. After(4, text) = SubSeq(text, 5, 8)
    BY <1>2 DEF After
  <1>6. SubSeq(text, 5, 8) = <<text[5], text[5 + 1], text[5 + 2], text[5 + 3]>>
    BY Bounds, FourElements, Zenon
  <1>7. SubSeq(text, 5, 8) = <<o, "/", n, ".git">>
    BY <1>2, <1>6
  <1> HIDE DEF o, n
  <1>8. Identity(<<s>>, <<o, "/", n, ".git">>) = [host |-> <<s>>, owner |-> <<o>>, name |-> <<n>>]
    BY <1>1, PathIdentity
  <1> QED BY <1>4, <1>5, <1>7, <1>8 DEF o, n

(* A remote that normalizes to what the URL of a listed repository does is *)
(* a remote of that repository.                                            *)
THEOREM OriginsIdentify ==
    ASSUME NEW s \in Sources, NEW key \in ExternalKeys, NEW origin \in AnyOrigin,
           NormalizeRemote(origin) = NormalizeRemote(URL(s, key))
    PROVE  origin \in Origins(s, key)
  <1>1. PICK t \in Sources, k \in ExternalKeys : origin \in Origins(t, k)
    BY DEF AnyOrigin
  <1>2. NormalizeRemote(origin) = [host |-> <<t>>, owner |-> <<OwnerOf[k]>>, name |-> <<NameOf[k]>>]
    BY <1>1, URLIdentity, ScpIdentity DEF Origins
  <1>3. NormalizeRemote(URL(s, key)) = [host |-> <<s>>, owner |-> <<OwnerOf[key]>>,
                                        name |-> <<NameOf[key]>>]
    BY URLIdentity
  <1>4. <<s>> = <<t>> /\ <<OwnerOf[key]>> = <<OwnerOf[k]>> /\ <<NameOf[key]>> = <<NameOf[k]>>
    <2>1. /\ NormalizeRemote(origin).host = <<t>>
          /\ NormalizeRemote(origin).owner = <<OwnerOf[k]>>
          /\ NormalizeRemote(origin).name = <<NameOf[k]>>
      BY <1>2
    <2>2. /\ NormalizeRemote(URL(s, key)).host = <<s>>
          /\ NormalizeRemote(URL(s, key)).owner = <<OwnerOf[key]>>
          /\ NormalizeRemote(URL(s, key)).name = <<NameOf[key]>>
      BY <1>3
    <2> QED BY <2>1, <2>2
  <1>5. s = t /\ key = k
    BY <1>4, CloneAssumption
  <1> QED BY <1>1, <1>5

-----------------------------------------------------------------------------
(* What is listed, shown and picked. *)

LEMMA PathOfLocation ==
    ASSUME NEW d, NEW w, NEW r, NEW lt, \A l \in d.locations : l.path \in Paths
    PROVE  /\ LocationPath(d, w, r, lt) \in Paths \cup {NULL}
           /\ LocationPath(d, w, r, lt) = NULL =>
                 \A l \in d.locations : ~(l.workspace = w /\ l.resource = r /\ l.type = lt)
           /\ LocationPath(d, w, r, lt) # NULL =>
                 \E l \in d.locations :
                    /\ l.workspace = w /\ l.resource = r /\ l.type = lt
                    /\ l.path = LocationPath(d, w, r, lt)
  <1> DEFINE own == {l \in d.locations : l.workspace = w /\ l.resource = r /\ l.type = lt}
  <1>1. CASE own = {}
    BY <1>1 DEF LocationPath
  <1>2. CASE own # {}
    <2>1. (CHOOSE l \in own : TRUE) \in own
      BY <1>2
    <2>2. LocationPath(d, w, r, lt) = (CHOOSE l \in own : TRUE).path
      BY <1>2 DEF LocationPath
    <2> HIDE DEF LocationPath
    <2>3. PICK l \in own : LocationPath(d, w, r, lt) = l.path
      BY <2>1, <2>2
    <2>4. l.path \in Paths /\ NULL \notin Paths
      BY AbsenceAssumption
    <2> QED BY <2>3, <2>4
  <1> QED BY <1>1, <1>2

(* A pick that is answered at its first line holds numbers of the list     *)
(* and nothing else.                                                       *)
THEOREM AnsweredIsChoice ==
    ASSUME NEW options, NEW line, Pick(options, <<line>>, TRUE, Word).outcome = "answered"
    PROVE  \A i \in DOMAIN line : line[i] \in 1 .. Len(options)
  <1> DEFINE lines == <<line>>
             good == {j \in DOMAIN lines :
                        lines[j] = <<>> \/ IsChoice(lines[j], Len(options), TRUE)}
             d == PickNumbered(lines, Len(options), TRUE, 0)
  <1>1. Pick(options, lines, TRUE, Word) =
              [d EXCEPT !.value = [k \in DOMAIN d.value |-> options[d.value[k]]]]
    BY DEF Pick, NoAnswer
  <1>2. SUFFICES ASSUME ~IsChoice(line, Len(options), TRUE) PROVE FALSE
    BY DEF IsChoice
  <1>3. DOMAIN lines = {1} /\ lines[1] = line
    OBVIOUS
  <1>4. \E v, rest : d = [outcome |-> "cancelled", value |-> v, rest |-> rest]
    <2>1. CASE line = <<>>
      <3> HIDE DEF lines
      <3>1. good = {1}
        BY <1>3, <2>1
      <3>2. Leftmost(good) = 1
        <4> HIDE DEF good
        <4>1. \A j \in {1} : 1 <= j
          OBVIOUS
        <4> QED BY <3>1, <4>1 DEF Leftmost
      <3>3. lines[Leftmost(good)] = <<>>
        BY <1>3, <2>1, <3>2
      <3>4. \E j \in DOMAIN lines : lines[j] = <<>> \/ IsChoice(lines[j], Len(options), TRUE)
        BY <1>3, <2>1
      <3>5. d = [NoAnswer("cancelled", <<>>) EXCEPT
                   !.rest = SubSeq(lines, Leftmost(good) + 1, Len(lines))]
        BY <3>3, <3>4 DEF PickNumbered, Ask
      <3> QED BY <3>5 DEF NoAnswer
    <2>2. CASE line # <<>>
      <3> HIDE DEF lines
      <3>1. ~ \E j \in DOMAIN lines : lines[j] = <<>> \/ IsChoice(lines[j], Len(options), TRUE)
        BY <1>2, <1>3, <2>2
      <3>2. d = NoAnswer("cancelled", <<>>)
        BY <3>1 DEF PickNumbered, Ask
      <3> QED BY <3>2 DEF NoAnswer
    <2> QED BY <2>1, <2>2
  <1> HIDE DEF d
  <1>5. PICK v, rest : d = [outcome |-> "cancelled", value |-> v, rest |-> rest]
    BY <1>4
  <1>6. Pick(options, lines, TRUE, Word).outcome = "cancelled"
    BY <1>1, <1>5
  <1> QED BY <1>6

-----------------------------------------------------------------------------
(* What a command knows. *)

InWork    == {"absent", "cloning", "cloned", "valid"}
Preparing == {"resolved", "discovered", "stored", "picked"}

(* Only refreshes write resources, only clones register locations.         *)
TablesOfRepositories ==
    /\ \A r \in ResourceIds : HasResource(db, r) =>
          /\ db.resources[r].source # NULL /\ db.resources[r].provider # NULL
          /\ db.resources[r].key # NULL /\ db.resources[r].type = RepositoryType
    /\ \A l \in db.locations : l.type = CheckoutType

(* What a command read of a repository still holds.                        *)
RepositoryKnown(c, item) ==
    /\ HasResource(db, item.resource)
    /\ item.source = db.resources[item.resource].source
    /\ Member(proc[c].workspace, item.resource) \in db.memberships

CommandSound(c) ==
    /\ HasWorkspace(db, proc[c].workspace)
    /\ db.workspaces[proc[c].workspace].dir = proc[c].dir
    /\ proc[c].pc # "discovered" => proc[c].items = {}
    /\ proc[c].pc \in Preparing => proc[c].todo = {} /\ proc[c].done = {}
    /\ \A item \in proc[c].todo \cup proc[c].done : RepositoryKnown(c, item)
    /\ \A i, j \in proc[c].todo : i.resource = j.resource => i = j
    /\ proc[c].pc \in InWork =>
          /\ proc[c].item \in proc[c].todo
          /\ proc[c].path \in Paths
          /\ proc[c].path = IF proc[c].item.path # NULL THEN proc[c].item.path
                            ELSE Destination[<<proc[c].dir, proc[c].item.name>>]

(* Two clones never fill one directory: git refuses one that exists.       *)
ClonesApart ==
    /\ \A c \in Procs : At(c, "cloning") =>
          dirs[proc[c].path] \in Checkout /\ ~dirs[proc[c].path].complete
    /\ \A c, d \in Procs : At(c, "cloning") /\ At(d, "cloning") /\ c # d =>
          proc[c].path # proc[d].path

BaseInv ==
    /\ TypeOK
    /\ RegistryInv
    /\ TablesOfRepositories
    /\ \A c \in Procs : proc[c] # NULL => CommandSound(c)
    /\ ClonesApart

-----------------------------------------------------------------------------
(* What an action does to the commands: c goes on, the others stay.        *)

Goes(c, pc, items, todo, item, path, done) ==
    /\ \A d \in Procs \ {c} : proc'[d] = proc[d]
    /\ proc' \in [Procs -> Command \cup {NULL}]
    /\ proc'[c] \in Command
    /\ proc'[c].pc = pc
    /\ proc'[c].workspace = proc[c].workspace
    /\ proc'[c].dir = proc[c].dir
    /\ proc'[c].source = proc[c].source \/ items = {}
    /\ proc'[c].items = items
    /\ proc'[c].todo = todo
    /\ proc'[c].item = item
    /\ proc'[c].path = path
    /\ proc'[c].done = done

LEMMA Going ==
    ASSUME TypeOK, NEW c \in Procs, proc[c] # NULL, NEW x \in Command,
           proc' = [proc EXCEPT ![c] = x],
           x.workspace = proc[c].workspace, x.dir = proc[c].dir,
           x.source = proc[c].source \/ x.items = {}
    PROVE  Goes(c, x.pc, x.items, x.todo, x.item, x.path, x.done)
  BY DEF TypeOK, Goes

LEMMA ItemsGoes ==
    ASSUME TypeOK, NEW c \in Procs, proc[c] # NULL, NEW items \in SUBSET Item,
           NEW pc \in {"discovered", "stored"},
           proc' = [proc EXCEPT ![c].pc = pc, ![c].items = items]
    PROVE  Goes(c, pc, items, proc[c].todo, proc[c].item, proc[c].path, proc[c].done)
  <1> DEFINE x == [proc[c] EXCEPT !.pc = pc, !.items = items]
  <1>1. proc \in [Procs -> Command \cup {NULL}] /\ proc[c] \in Command
    BY DEF TypeOK
  <1>2. proc' = [proc EXCEPT ![c] = x]
    BY <1>1
  <1>3. /\ x \in Command /\ x.workspace = proc[c].workspace /\ x.dir = proc[c].dir
        /\ x.source = proc[c].source \/ x.items = {}
    BY <1>1 DEF Command
  <1>4. /\ x.pc = pc /\ x.items = items /\ x.todo = proc[c].todo
        /\ x.item = proc[c].item /\ x.path = proc[c].path /\ x.done = proc[c].done
    BY <1>1 DEF Command
  <1> HIDE DEF x
  <1>5. Goes(c, x.pc, x.items, x.todo, x.item, x.path, x.done)
    BY <1>2, <1>3, Going
  <1> QED BY <1>4, <1>5

LEMMA PickGoes ==
    ASSUME TypeOK, NEW c \in Procs, proc[c] # NULL, NEW picked \in SUBSET Repository,
           NEW keys \in SUBSET ExternalKeys,
           proc' = [proc EXCEPT ![c].pc = "picked", ![c].picked = picked, ![c].selectors = keys]
    PROVE  Goes(c, "picked", proc[c].items, proc[c].todo, proc[c].item, proc[c].path, proc[c].done)
  <1> DEFINE x == [proc[c] EXCEPT !.pc = "picked", !.picked = picked, !.selectors = keys]
  <1>1. proc \in [Procs -> Command \cup {NULL}] /\ proc[c] \in Command
    BY DEF TypeOK
  <1>2. proc' = [proc EXCEPT ![c] = x]
    BY <1>1
  <1>3. /\ x \in Command /\ x.workspace = proc[c].workspace /\ x.dir = proc[c].dir
        /\ x.source = proc[c].source \/ x.items = {}
    BY <1>1 DEF Command
  <1>4. /\ x.pc = "picked" /\ x.items = proc[c].items /\ x.todo = proc[c].todo
        /\ x.item = proc[c].item /\ x.path = proc[c].path /\ x.done = proc[c].done
    BY <1>1 DEF Command
  <1> HIDE DEF x
  <1>5. Goes(c, x.pc, x.items, x.todo, x.item, x.path, x.done)
    BY <1>2, <1>3, Going
  <1> QED BY <1>4, <1>5

LEMMA ResumeGoes ==
    ASSUME TypeOK, NEW c \in Procs, proc[c] # NULL, NEW s \in Sources, proc[c].items = {},
           proc' = [proc EXCEPT ![c].pc = "stored", ![c].source = s]
    PROVE  Goes(c, "stored", {}, proc[c].todo, proc[c].item, proc[c].path, proc[c].done)
  <1> DEFINE x == [proc[c] EXCEPT !.pc = "stored", !.source = s]
  <1>1. proc \in [Procs -> Command \cup {NULL}] /\ proc[c] \in Command
    BY DEF TypeOK
  <1>2. proc' = [proc EXCEPT ![c] = x]
    BY <1>1
  <1>3. /\ x \in Command /\ x.workspace = proc[c].workspace /\ x.dir = proc[c].dir
        /\ x.source = proc[c].source \/ x.items = {}
    BY <1>1 DEF Command
  <1>4. /\ x.pc = "stored" /\ x.items = {} /\ x.todo = proc[c].todo
        /\ x.item = proc[c].item /\ x.path = proc[c].path /\ x.done = proc[c].done
    BY <1>1 DEF Command
  <1> HIDE DEF x
  <1>5. Goes(c, x.pc, x.items, x.todo, x.item, x.path, x.done)
    BY <1>2, <1>3, Going
  <1> QED BY <1>4, <1>5

LEMMA SelectedGoes ==
    ASSUME TypeOK, NEW c \in Procs, proc[c] # NULL, NEW todo \in SUBSET Repository,
           proc' = [proc EXCEPT ![c].pc = "listed", ![c].picked = {}, ![c].selectors = {},
                                ![c].todo = todo]
    PROVE  Goes(c, "listed", proc[c].items, todo, proc[c].item, proc[c].path, proc[c].done)
  <1> DEFINE x == [proc[c] EXCEPT !.pc = "listed", !.picked = {}, !.selectors = {}, !.todo = todo]
  <1>1. proc \in [Procs -> Command \cup {NULL}] /\ proc[c] \in Command
    BY DEF TypeOK
  <1>2. proc' = [proc EXCEPT ![c] = x]
    BY <1>1
  <1>3. /\ x \in Command /\ x.workspace = proc[c].workspace /\ x.dir = proc[c].dir
        /\ x.source = proc[c].source \/ x.items = {}
    BY <1>1 DEF Command
  <1>4. /\ x.pc = "listed" /\ x.items = proc[c].items /\ x.todo = todo
        /\ x.item = proc[c].item /\ x.path = proc[c].path /\ x.done = proc[c].done
    BY <1>1 DEF Command
  <1> HIDE DEF x
  <1>5. Goes(c, x.pc, x.items, x.todo, x.item, x.path, x.done)
    BY <1>2, <1>3, Going
  <1> QED BY <1>4, <1>5

LEMMA TodoGoes ==
    ASSUME TypeOK, NEW c \in Procs, proc[c] # NULL, NEW todo \in SUBSET Repository,
           proc' = [proc EXCEPT ![c].pc = "listed", ![c].todo = todo]
    PROVE  Goes(c, "listed", proc[c].items, todo, proc[c].item, proc[c].path, proc[c].done)
  <1> DEFINE x == [proc[c] EXCEPT !.pc = "listed", !.todo = todo]
  <1>1. proc \in [Procs -> Command \cup {NULL}] /\ proc[c] \in Command
    BY DEF TypeOK
  <1>2. proc' = [proc EXCEPT ![c] = x]
    BY <1>1
  <1>3. /\ x \in Command /\ x.workspace = proc[c].workspace /\ x.dir = proc[c].dir
        /\ x.source = proc[c].source \/ x.items = {}
    BY <1>1 DEF Command
  <1>4. /\ x.pc = "listed" /\ x.items = proc[c].items /\ x.todo = todo
        /\ x.item = proc[c].item /\ x.path = proc[c].path /\ x.done = proc[c].done
    BY <1>1 DEF Command
  <1> HIDE DEF x
  <1>5. Goes(c, x.pc, x.items, x.todo, x.item, x.path, x.done)
    BY <1>2, <1>3, Going
  <1> QED BY <1>4, <1>5

LEMMA TakeGoes ==
    ASSUME TypeOK, NEW c \in Procs, proc[c] # NULL, NEW pc \in InWork, NEW item \in Repository,
           NEW path \in Paths,
           proc' = [proc EXCEPT ![c].pc = pc, ![c].item = item, ![c].path = path]
    PROVE  Goes(c, pc, proc[c].items, proc[c].todo, item, path, proc[c].done)
  <1> DEFINE x == [proc[c] EXCEPT !.pc = pc, !.item = item, !.path = path]
  <1>1. proc \in [Procs -> Command \cup {NULL}] /\ proc[c] \in Command
    BY DEF TypeOK
  <1>2. proc' = [proc EXCEPT ![c] = x]
    BY <1>1
  <1>3. /\ x \in Command /\ x.workspace = proc[c].workspace /\ x.dir = proc[c].dir
        /\ x.source = proc[c].source \/ x.items = {}
    BY <1>1 DEF Command, InWork
  <1>4. /\ x.pc = pc /\ x.items = proc[c].items /\ x.todo = proc[c].todo
        /\ x.item = item /\ x.path = path /\ x.done = proc[c].done
    BY <1>1 DEF Command, InWork
  <1> HIDE DEF x
  <1>5. Goes(c, x.pc, x.items, x.todo, x.item, x.path, x.done)
    BY <1>2, <1>3, Going
  <1> QED BY <1>4, <1>5

LEMMA CounterGoes ==
    ASSUME TypeOK, NEW c \in Procs, proc[c] # NULL, NEW pc \in InWork,
           proc' = [proc EXCEPT ![c].pc = pc]
    PROVE  Goes(c, pc, proc[c].items, proc[c].todo, proc[c].item, proc[c].path, proc[c].done)
  <1> DEFINE x == [proc[c] EXCEPT !.pc = pc]
  <1>1. proc \in [Procs -> Command \cup {NULL}] /\ proc[c] \in Command
    BY DEF TypeOK
  <1>2. proc' = [proc EXCEPT ![c] = x]
    BY <1>1
  <1>3. /\ x \in Command /\ x.workspace = proc[c].workspace /\ x.dir = proc[c].dir
        /\ x.source = proc[c].source \/ x.items = {}
    BY <1>1 DEF Command, InWork
  <1>4. /\ x.pc = pc /\ x.items = proc[c].items /\ x.todo = proc[c].todo
        /\ x.item = proc[c].item /\ x.path = proc[c].path /\ x.done = proc[c].done
    BY <1>1 DEF Command, InWork
  <1> HIDE DEF x
  <1>5. Goes(c, x.pc, x.items, x.todo, x.item, x.path, x.done)
    BY <1>2, <1>3, Going
  <1> QED BY <1>4, <1>5

LEMMA NextGoes ==
    ASSUME TypeOK, NEW c \in Procs, proc[c] # NULL, NEW item, NEW done \in SUBSET Repository,
           NextRepository(c, item, done)
    PROVE  Goes(c, "listed", proc[c].items, proc[c].todo \ {item}, NULL, NULL, proc[c].done \cup done)
  <1> DEFINE x == [proc[c] EXCEPT !.pc = "listed", !.todo = @ \ {item}, !.item = NULL, !.path = NULL, !.done = @ \cup done]
  <1>1. proc \in [Procs -> Command \cup {NULL}] /\ proc[c] \in Command
    BY DEF TypeOK
  <1>2. proc' = [proc EXCEPT ![c] = x]
    BY <1>1 DEF NextRepository
  <1>3. /\ x \in Command /\ x.workspace = proc[c].workspace /\ x.dir = proc[c].dir
        /\ x.source = proc[c].source \/ x.items = {}
    BY <1>1 DEF Command
  <1>4. /\ x.pc = "listed" /\ x.items = proc[c].items /\ x.todo = proc[c].todo \ {item}
        /\ x.item = NULL /\ x.path = NULL /\ x.done = proc[c].done \cup done
    BY <1>1 DEF Command
  <1> HIDE DEF x
  <1>5. Goes(c, x.pc, x.items, x.todo, x.item, x.path, x.done)
    BY <1>2, <1>3, Going
  <1> QED BY <1>4, <1>5
-----------------------------------------------------------------------------
(* What an action does to the tables. *)

(* What every step leaves: resources, workspaces and memberships.          *)
Kept ==
    /\ \A r \in ResourceIds : HasResource(db, r) =>
          /\ HasResource(db', r)
          /\ db'.resources[r].source = db.resources[r].source
          /\ db'.resources[r].provider = db.resources[r].provider
    /\ \A w \in WorkspaceIds : HasWorkspace(db, w) => db'.workspaces[w] = db.workspaces[w]
    /\ db.memberships \subseteq db'.memberships

LEMMA KeptWhenUnchanged ==
    ASSUME BaseInv, UNCHANGED <<db, issued>>
    PROVE  Kept /\ RegistryInv' /\ TablesOfRepositories'
  BY DEF Kept, BaseInv, RegistryInv, RegistryTypeOK, TablesConsistent, LiveIds,
         TablesOfRepositories, HasResource, HasWorkspace

LEMMA PublishedItems ==
    ASSUME remote \in [Sources -> [ProviderIds -> ExternalKeys \cup {NULL}]], NEW s \in Sources
    PROVE  PublishedRepositories(s) \in SUBSET Item
  <1> SUFFICES ASSUME NEW p \in ProviderIds, remote[s][p] # NULL
               PROVE  [provider |-> p, key |-> remote[s][p], name |-> NameOf[remote[s][p]]] \in Item
    BY DEF PublishedRepositories
  <1>1. remote[s][p] \in ExternalKeys
    OBVIOUS
  <1>2. NameOf[remote[s][p]] \in Names
    BY <1>1, CloneAssumption
  <1> QED BY <1>1, <1>2 DEF Item

LEMMA RefreshTables ==
    ASSUME BaseInv, NEW w \in WorkspaceIds, NEW s \in Sources, NEW items \in SUBSET Item,
           NEW rs \in SUBSET ResourceIds, NEW stored \in [rs -> items],
           Refresh(w, s, items, stored)
    PROVE  /\ Kept /\ RegistryInv' /\ TablesOfRepositories'
           /\ db'.locations = db.locations /\ db'.workspaces = db.workspaces
           /\ \A r \in ResourceIds \ rs : db'.resources[r] = db.resources[r]
           /\ \A r \in rs : /\ db'.resources[r].source = s
                            /\ db'.resources[r].provider = stored[r].provider
                            /\ db'.resources[r].key = stored[r].key
                            /\ db'.resources[r].name = stored[r].name
  <1>1. db \in Database /\ DOMAIN stored = rs
    BY DEF BaseInv, TypeOK, RegistryTypeOK
  <1>2. RegistryInv'
    BY AnyRefreshPreserves DEF BaseInv
  <1>3. /\ db' = StoreAll(db, w, s, TypeOf[s], stored)
        /\ \A item \in items : item.provider # NULL
    BY DEF Refresh, Commit
  <1>4. /\ db'.locations = db.locations /\ db'.workspaces = db.workspaces
        /\ db.memberships \subseteq db'.memberships
        /\ \A r \in ResourceIds : db'.resources[r] =
              IF r \in rs THEN DiscoveredRow(s, TypeOf[s], stored[r]) ELSE db.resources[r]
    BY <1>1, <1>3 DEF StoreAll, Database
  <1>5. TypeOf[s] = RepositoryType /\ TypeOf[s] \in Types /\ s # NULL /\ NULL \notin ExternalKeys
    BY CloneAssumption, RegistryAssumption, TablesAssumption
  <1>6. \A r \in rs :
          /\ db'.resources[r] = DiscoveredRow(s, TypeOf[s], stored[r])
          /\ db'.resources[r].source = s /\ db'.resources[r].type = RepositoryType
          /\ db'.resources[r].provider = stored[r].provider /\ stored[r].provider # NULL
          /\ db'.resources[r].key = stored[r].key /\ stored[r].key # NULL
          /\ db'.resources[r].name = stored[r].name
    <2> TAKE r \in rs
    <2>1. stored[r] \in Item /\ stored[r].provider # NULL
      BY <1>3
    <2>2. db'.resources[r] = DiscoveredRow(s, TypeOf[s], stored[r])
      BY <1>4
    <2> QED BY <1>5, <2>1, <2>2 DEF DiscoveredRow, Item
  <1>7. \A r \in rs : HasResource(db', r)
    <2> TAKE r \in rs
    <2>1. stored[r] \in Item /\ stored[r].provider # NULL
      BY <1>3
    <2>2. DiscoveredRow(s, TypeOf[s], stored[r]) \in ResourceRow
      BY <1>5, <2>1 DEF Item, DiscoveredRow, ResourceRow
    <2> QED BY <1>6, <2>2, TablesAssumption DEF HasResource
  <1>8. \A r \in ResourceIds : HasResource(db, r) =>
           /\ db'.resources[r].source = db.resources[r].source
           /\ db'.resources[r].provider = db.resources[r].provider
    BY RefreshKeepsIdentity DEF BaseInv
  <1>9. Kept
    BY <1>4, <1>7, <1>8 DEF Kept, HasResource
  <1>10. TablesOfRepositories'
    <2>1. \A r \in ResourceIds \ rs : db'.resources[r] = db.resources[r]
      BY <1>4
    <2>2. \A r \in ResourceIds : HasResource(db', r) =>
             /\ db'.resources[r].source # NULL /\ db'.resources[r].provider # NULL
             /\ db'.resources[r].key # NULL /\ db'.resources[r].type = RepositoryType
      <3> TAKE r \in ResourceIds
      <3>1. CASE r \in rs
        BY <1>5, <1>6, <3>1
      <3>2. CASE r \notin rs
        BY <2>1, <3>2 DEF BaseInv, TablesOfRepositories, HasResource
      <3> QED BY <3>1, <3>2
    <2>3. \A l \in db'.locations : l.type = CheckoutType
      BY <1>4 DEF BaseInv, TablesOfRepositories
    <2> QED BY <2>2, <2>3 DEF TablesOfRepositories
  <1> QED BY <1>2, <1>4, <1>6, <1>9, <1>10

(* The row that a command registers for the repository in hand.            *)
NewLocation(c) ==
    [workspace |-> proc[c].workspace, resource |-> proc[c].item.resource,
     type |-> CheckoutType, path |-> proc[c].path]

LEMMA RegisterTables ==
    ASSUME BaseInv, NEW c \in Procs, proc[c] # NULL, Register(c)
    PROVE  /\ Kept /\ RegistryInv' /\ TablesOfRepositories'
           /\ db'.resources = db.resources /\ db'.workspaces = db.workspaces
           /\ db'.locations =
                 OtherLocations(db, proc[c].workspace, proc[c].item.resource, CheckoutType)
                   \cup {NewLocation(c)}
  <1>1. proc[c] \in Command /\ db \in Database /\ CommandSound(c) /\ proc[c].pc = "valid"
    BY DEF BaseInv, TypeOK, RegistryTypeOK, Register, At
  <1>2. /\ proc[c].item \in Repository /\ proc[c].path \in Paths
        /\ proc[c].workspace \in WorkspaceIds
    BY <1>1 DEF CommandSound, InWork, Command
  <1> DEFINE w == proc[c].workspace
             r == proc[c].item.resource
             p == proc[c].path
  <1>3. w \in WorkspaceIds /\ r \in ResourceIds /\ p \in Paths /\ CheckoutType \in LocationTypes
    BY <1>2, CloneAssumption DEF Repository
  <1>4. RegisterLocation(w, r, CheckoutType, p)
    BY DEF Register
  <1> HIDE DEF w, r, p
  <1>5. RegistryInv'
    BY <1>3, <1>4, CommandPreserves DEF BaseInv, LinkCommand
  <1>6. db' = SetLocation(db, w, r, CheckoutType, p)
    BY <1>4 DEF RegisterLocation, Commit
  <1>7. /\ db'.resources = db.resources /\ db'.memberships = db.memberships
        /\ db'.workspaces = db.workspaces
        /\ db'.locations = OtherLocations(db, w, r, CheckoutType) \cup
              {[workspace |-> w, resource |-> r, type |-> CheckoutType, path |-> p]}
    BY <1>1, <1>6 DEF SetLocation, Database
  <1>8. Kept /\ TablesOfRepositories'
    BY <1>7 DEF Kept, TablesOfRepositories, BaseInv, HasResource, HasWorkspace, OtherLocations
  <1> QED BY <1>5, <1>7, <1>8 DEF w, r, p, NewLocation

LEMMA WorkspaceTables ==
    ASSUME BaseInv, AddWorkspaces
    PROVE  /\ Kept /\ RegistryInv' /\ TablesOfRepositories'
           /\ db'.resources = db.resources /\ db'.locations = db.locations
  <1>1. db \in Database
    BY DEF BaseInv, TypeOK, RegistryTypeOK
  <1>2. PICK w \in WorkspaceIds, name \in WorkspaceNames, dir \in Directories :
          AddWorkspace(w, name, dir)
    BY DEF AddWorkspaces
  <1>3. RegistryInv'
    BY <1>2, CommandPreserves DEF BaseInv, WorkspaceCommand
  <1>4. /\ db'.resources = db.resources /\ db'.memberships = db.memberships
        /\ db'.locations = db.locations
        /\ \A v \in WorkspaceIds \ {w} : db'.workspaces[v] = db.workspaces[v]
        /\ w \notin issued
    BY <1>1, <1>2 DEF AddWorkspace, Commit, InsertWorkspace, Database
  <1>5. ~HasWorkspace(db, w)
    BY <1>4 DEF BaseInv, RegistryInv, LiveIds
  <1>6. Kept
    BY <1>4, <1>5 DEF Kept, HasResource
  <1>7. TablesOfRepositories'
    BY <1>4 DEF TablesOfRepositories, BaseInv, HasResource
  <1> QED BY <1>3, <1>4, <1>6, <1>7
-----------------------------------------------------------------------------
(* The types, the tables, and what a command knows of its list. *)

LEMMA ListedKnown ==
    ASSUME BaseInv, NEW w \in WorkspaceIds
    PROVE  /\ Listed(w) \subseteq Repository
           /\ \A item \in Listed(w) :
                 /\ HasResource(db, item.resource)
                 /\ item.source = db.resources[item.resource].source
                 /\ item.key = db.resources[item.resource].key
                 /\ item.name = db.resources[item.resource].name
                 /\ item.path = LocationPath(db, w, item.resource, CheckoutType)
                 /\ Member(w, item.resource) \in db.memberships
           /\ \A i, j \in Listed(w) : i.resource = j.resource => i = j
  <1>1. db \in Database /\ \A l \in db.locations : l.path \in Paths
    BY DEF BaseInv, TypeOK, RegistryTypeOK, Database, LocationRow
  <1> DEFINE row(r) == [resource |-> r, source |-> db.resources[r].source,
                        key |-> db.resources[r].key, name |-> db.resources[r].name,
                        path |-> LocationPath(db, w, r, CheckoutType)]
  <1>2. \A item \in Listed(w) : \E r \in WorkspaceResources(db, w, RepositoryType) : item = row(r)
    BY DEF Listed
  <1>3. ASSUME NEW r \in WorkspaceResources(db, w, RepositoryType)
        PROVE  /\ r \in ResourceIds /\ HasResource(db, r) /\ Member(w, r) \in db.memberships
               /\ row(r) \in Repository
    <2>1. r \in ResourceIds /\ HasResource(db, r) /\ Member(w, r) \in db.memberships
      BY DEF WorkspaceResources
    <2>2. db.resources[r] \in ResourceRow
      BY <1>1, <2>1 DEF Database, HasResource
    <2>3. /\ db.resources[r].source \in Sources /\ db.resources[r].key \in ExternalKeys
          /\ db.resources[r].name \in Names
      BY <2>1, <2>2 DEF BaseInv, TablesOfRepositories, ResourceRow
    <2>4. LocationPath(db, w, r, CheckoutType) \in Paths \cup {NULL}
      BY <1>1, PathOfLocation
    <2> QED BY <2>1, <2>3, <2>4 DEF Repository
  <1>4. \A r : /\ row(r).resource = r /\ row(r).source = db.resources[r].source
               /\ row(r).key = db.resources[r].key /\ row(r).name = db.resources[r].name
               /\ row(r).path = LocationPath(db, w, r, CheckoutType)
    OBVIOUS
  <1> HIDE DEF row
  <1> QED BY <1>2, <1>3, <1>4

LEMMA SoundStays ==
    ASSUME BaseInv, Kept, NEW d \in Procs, proc[d] # NULL, proc'[d] = proc[d]
    PROVE  CommandSound(d)'
  <1>1. proc[d] \in Command /\ CommandSound(d)
    BY DEF BaseInv, TypeOK
  <1>2. /\ \A item \in proc[d].todo \cup proc[d].done : item.resource \in ResourceIds
        /\ proc[d].workspace \in WorkspaceIds
    BY <1>1 DEF Command, Repository
  <1>3. \A item \in proc[d].todo \cup proc[d].done : RepositoryKnown(d, item)'
    BY <1>1, <1>2 DEF CommandSound, RepositoryKnown, Kept
  <1>4. /\ HasWorkspace(db, proc[d].workspace)'
        /\ (db.workspaces[proc[d].workspace].dir = proc[d].dir)'
    BY <1>1, <1>2 DEF CommandSound, Kept, HasWorkspace
  <1> QED BY <1>1, <1>3, <1>4 DEF CommandSound

LEMMA SoundGoes ==
    ASSUME BaseInv, Kept, NEW c \in Procs, proc[c] # NULL,
           NEW pc, NEW items, NEW todo, NEW item, NEW path, NEW done,
           Goes(c, pc, items, todo, item, path, done),
           \A i \in todo \cup done : RepositoryKnown(c, i),
           \A i, j \in todo : i.resource = j.resource => i = j,
           pc # "discovered" => items = {},
           pc \in Preparing => todo = {} /\ done = {},
           pc \in InWork =>
              /\ item \in todo /\ path \in Paths
              /\ path = IF item.path # NULL THEN item.path
                        ELSE Destination[<<proc[c].dir, item.name>>]
    PROVE  CommandSound(c)'
  <1>1. proc[c] \in Command /\ CommandSound(c) /\ proc'[c] \in Command
    BY DEF BaseInv, TypeOK, Goes
  <1>2. /\ \A i \in todo \cup done : i.resource \in ResourceIds
        /\ proc[c].workspace \in WorkspaceIds
    BY <1>1 DEF Command, Repository, Goes
  <1>3. \A i \in todo \cup done : RepositoryKnown(c, i)'
    BY <1>2 DEF RepositoryKnown, Kept, Goes
  <1>4. /\ HasWorkspace(db, proc[c].workspace)'
        /\ (db.workspaces[proc[c].workspace].dir = proc[c].dir)'
    BY <1>1, <1>2 DEF CommandSound, Kept, HasWorkspace, Goes
  <1>5. (proc[c].pc \in InWork =>
          /\ proc[c].item \in proc[c].todo
          /\ proc[c].path \in Paths
          /\ proc[c].path = IF proc[c].item.path # NULL THEN proc[c].item.path
                            ELSE Destination[<<proc[c].dir, proc[c].item.name>>])'
    BY DEF Goes
  <1>6. /\ (proc[c].pc # "discovered" => proc[c].items = {})'
        /\ (proc[c].pc \in Preparing => proc[c].todo = {} /\ proc[c].done = {})'
        /\ (\A i, j \in proc[c].todo : i.resource = j.resource => i = j)'
        /\ (\A i \in proc[c].todo \cup proc[c].done : RepositoryKnown(c, i))'
    BY <1>3 DEF Goes
  <1> QED BY <1>4, <1>5, <1>6 DEF CommandSound

LEMMA ApartGoes ==
    ASSUME BaseInv, NEW c \in Procs, proc[c] # NULL,
           NEW pc, NEW items, NEW todo, NEW item, NEW path, NEW done,
           Goes(c, pc, items, todo, item, path, done),
           \A d \in Procs \ {c} : At(d, "cloning") => dirs'[proc[d].path] = dirs[proc[d].path],
           pc = "cloning" => /\ dirs[path] = NULL
                             /\ dirs'[path] \in Checkout /\ ~dirs'[path].complete
    PROVE  ClonesApart'
  <1>1. \A d \in Procs \ {c} : proc'[d] = proc[d]
    BY DEF Goes
  <1>2. proc'[c].pc = pc /\ proc'[c].path = path
    BY DEF Goes
  <1>3. \A d \in Procs \ {c} : At(d, "cloning") =>
           dirs'[proc[d].path] \in Checkout /\ ~dirs'[proc[d].path].complete
    BY DEF BaseInv, ClonesApart
  <1>4. pc = "cloning" => \A d \in Procs \ {c} : At(d, "cloning") => proc[d].path # path
    BY AbsenceAssumption DEF BaseInv, ClonesApart
  <1>5. \A d, e \in Procs \ {c} : At(d, "cloning") /\ At(e, "cloning") /\ d # e =>
           proc[d].path # proc[e].path
    BY DEF BaseInv, ClonesApart
  <1> QED BY <1>1, <1>2, <1>3, <1>4, <1>5 DEF ClonesApart, At

LEMMA ApartLeaves ==
    ASSUME BaseInv, \A d \in Procs : proc'[d] \in {NULL, proc[d]},
           \A d \in Procs : At(d, "cloning") /\ proc'[d] # NULL =>
              dirs'[proc[d].path] = dirs[proc[d].path]
    PROVE  ClonesApart'
  BY DEF BaseInv, ClonesApart, At

LEMMA BaseGoes ==
    ASSUME BaseInv, Kept, RegistryInv', TablesOfRepositories',
           dirs' \in [Paths -> Checkout \cup {NULL, OtherDir}], UNCHANGED <<remote, host>>,
           NEW c \in Procs, proc[c] # NULL,
           NEW pc, NEW items, NEW todo, NEW item, NEW path, NEW done,
           Goes(c, pc, items, todo, item, path, done),
           \A i \in todo \cup done : RepositoryKnown(c, i),
           \A i, j \in todo : i.resource = j.resource => i = j,
           pc # "discovered" => items = {},
           pc \in Preparing => todo = {} /\ done = {},
           pc \in InWork =>
              /\ item \in todo /\ path \in Paths
              /\ path = IF item.path # NULL THEN item.path
                        ELSE Destination[<<proc[c].dir, item.name>>],
           \A d \in Procs \ {c} : At(d, "cloning") => dirs'[proc[d].path] = dirs[proc[d].path],
           pc = "cloning" => /\ dirs[path] = NULL
                             /\ dirs'[path] \in Checkout /\ ~dirs'[path].complete
    PROVE  BaseInv'
  <1>1. TypeOK'
    BY DEF BaseInv, TypeOK, RegistryInv, Goes
  <1>2. CommandSound(c)'
    BY SoundGoes
  <1>3. \A d \in Procs \ {c} : proc'[d] # NULL => CommandSound(d)'
    BY SoundStays DEF Goes
  <1>4. ClonesApart'
    BY ApartGoes
  <1> QED BY <1>1, <1>2, <1>3, <1>4 DEF BaseInv

(* What leaves the commands alone, or ends one.                            *)
LEMMA BaseLeaves ==
    ASSUME BaseInv, Kept, RegistryInv', TablesOfRepositories',
           dirs' \in [Paths -> Checkout \cup {NULL, OtherDir}],
           remote' \in [Sources -> [ProviderIds -> ExternalKeys \cup {NULL}]],
           host' \in [WorkspaceIds -> Sources],
           proc' \in [Procs -> Command \cup {NULL}],
           \A d \in Procs : proc'[d] \in {NULL, proc[d]},
           \A d \in Procs : At(d, "cloning") /\ proc'[d] # NULL =>
              dirs'[proc[d].path] = dirs[proc[d].path]
    PROVE  BaseInv'
  <1>1. TypeOK'
    BY DEF BaseInv, TypeOK, RegistryInv
  <1>2. \A d \in Procs : proc'[d] # NULL => CommandSound(d)'
    BY SoundStays
  <1>3. ClonesApart'
    BY ApartLeaves
  <1> QED BY <1>1, <1>2, <1>3 DEF BaseInv

LEMMA TargetIsPath ==
    ASSUME BaseInv, NEW c \in Procs, proc[c] # NULL, NEW item \in Repository
    PROVE  /\ TargetPath(c, item) \in Paths
           /\ TargetPath(c, item) = IF item.path # NULL THEN item.path
                                    ELSE Destination[<<proc[c].dir, item.name>>]
  <1>1. proc[c] \in Command
    BY DEF BaseInv, TypeOK
  <1>2. <<proc[c].dir, item.name>> \in Directories \X Names /\ item.path \in Paths \cup {NULL}
    BY <1>1 DEF Command, Repository
  <1>3. Destination[<<proc[c].dir, item.name>>] \in Paths
    BY <1>2, CloneAssumption
  <1>4. State(item) = "not cloned" <=> item.path = NULL
    BY DEF State
  <1> QED BY <1>2, <1>3, <1>4 DEF TargetPath

LEMMA BaseResolve ==
    ASSUME BaseInv, NEW c \in Procs, NEW w \in WorkspaceIds, Resolve(c, w)
    PROVE  BaseInv'
  <1>1. /\ Kept /\ RegistryInv' /\ TablesOfRepositories'
        /\ HasWorkspace(db, w) /\ proc[c] = NULL
        /\ UNCHANGED <<db, issued, dirs, remote, host>>
    BY KeptWhenUnchanged DEF Resolve
  <1> DEFINE x == [pc |-> "resolved", workspace |-> w, dir |-> db.workspaces[w].dir,
                   source |-> host[w], picked |-> {}, selectors |-> {}, items |-> {}, todo |-> {},
                   item |-> NULL, path |-> NULL, done |-> {}]
  <1>2. db.workspaces[w] \in WorkspaceRow /\ host[w] \in Sources
    BY <1>1 DEF BaseInv, TypeOK, RegistryTypeOK, Database, HasWorkspace
  <1>3. /\ x \in Command /\ x.pc = "resolved" /\ x.workspace = w /\ x.items = {} /\ x.todo = {}
        /\ x.done = {} /\ x.dir = db.workspaces[w].dir
    BY <1>2 DEF Command, WorkspaceRow
  <1>4. proc \in [Procs -> Command \cup {NULL}] /\ proc' = [proc EXCEPT ![c] = x]
    BY DEF BaseInv, TypeOK, Resolve
  <1> HIDE DEF x
  <1>5. proc' \in [Procs -> Command \cup {NULL}] /\ proc'[c] = x
        /\ \A d \in Procs \ {c} : proc'[d] = proc[d]
    BY <1>3, <1>4
  <1>6. TypeOK'
    BY <1>1, <1>5 DEF BaseInv, TypeOK, RegistryInv
  <1>7. CommandSound(c)'
    BY <1>1, <1>3, <1>5 DEF CommandSound, HasWorkspace, Preparing, InWork
  <1>8. \A d \in Procs \ {c} : proc'[d] # NULL => CommandSound(d)'
    BY <1>1, <1>5, SoundStays
  <1>9. ClonesApart'
    BY <1>1, <1>3, <1>5 DEF BaseInv, ClonesApart, At
  <1> QED BY <1>1, <1>6, <1>7, <1>8, <1>9 DEF BaseInv

LEMMA BaseDiscover ==
    ASSUME BaseInv, NEW c \in Procs, proc[c] # NULL, Discover(c) \/ StoreRepositories(c)
    PROVE  /\ BaseInv' /\ proc'[c].pc \in Preparing
           /\ proc'[c].items \subseteq PublishedRepositories(proc'[c].source)
  <1>1. TypeOK /\ proc[c] \in Command /\ CommandSound(c)
    BY SMTT(30) DEF BaseInv, TypeOK
  <1>2. CASE Discover(c)
    <2>1. /\ UNCHANGED <<db, issued, dirs, remote, host>> /\ proc[c].pc = "resolved"
          /\ PublishedRepositories(proc[c].source) \in SUBSET Item
      BY <1>1, <1>2, PublishedItems DEF Discover, At, TypeOK, Command
    <2>2. Goes(c, "discovered", PublishedRepositories(proc[c].source), proc[c].todo, proc[c].item,
               proc[c].path, proc[c].done)
      BY <1>1, <1>2, <2>1, ItemsGoes DEF Discover
    <2>3. Kept /\ RegistryInv' /\ TablesOfRepositories'
      BY <2>1, KeptWhenUnchanged
    <2>4. proc[c].todo = {} /\ proc[c].done = {}
      BY <1>1, <2>1 DEF CommandSound, Preparing
    <2>5. "discovered" \notin InWork
      BY DEF InWork
    <2>6. dirs' \in [Paths -> Checkout \cup {NULL, OtherDir}]
      BY <1>1, <2>1 DEF TypeOK
    <2>7. BaseInv'
      BY <2>1, <2>2, <2>3, <2>4, <2>5, <2>6, BaseGoes
    <2> QED BY <2>2, <2>7 DEF Goes, Preparing, PublishedRepositories
  <1>3. CASE StoreRepositories(c)
    <2>1. PICK rs \in SUBSET ResourceIds : \E stored \in [rs -> proc[c].items] :
            Refresh(proc[c].workspace, proc[c].source, proc[c].items, stored)
      BY <1>3 DEF StoreRepositories
    <2>2. /\ UNCHANGED <<dirs, remote, host>> /\ proc[c].pc = "discovered"
          /\ proc[c].workspace \in WorkspaceIds /\ proc[c].source \in Sources
          /\ proc[c].items \in SUBSET Item
      BY <1>1, <1>3 DEF StoreRepositories, At, Command
    <2>3. Kept /\ RegistryInv' /\ TablesOfRepositories'
      BY <2>1, <2>2, RefreshTables
    <2>4. Goes(c, "stored", {}, proc[c].todo, proc[c].item, proc[c].path, proc[c].done)
      BY <1>1, <1>3, ItemsGoes DEF StoreRepositories
    <2>5. proc[c].todo = {} /\ proc[c].done = {}
      BY <1>1, <2>2 DEF CommandSound, Preparing
    <2>6. "stored" \notin InWork /\ "stored" # "discovered"
      BY DEF InWork
    <2>7. dirs' \in [Paths -> Checkout \cup {NULL, OtherDir}]
      BY <1>1, <2>2 DEF TypeOK
    <2>8. BaseInv'
      BY <2>2, <2>3, <2>4, <2>5, <2>6, <2>7, BaseGoes
    <2> QED BY <2>4, <2>8 DEF Goes, Preparing
  <1> QED BY <1>2, <1>3

LEMMA BasePick ==
    ASSUME BaseInv, NEW c \in Procs, proc[c] # NULL, PickRepositories(c) \/ ResumePick(c)
    PROVE  BaseInv' /\ proc'[c].pc \in Preparing /\ proc'[c].items = {}
  <1>1. /\ TypeOK /\ proc[c] \in Command /\ CommandSound(c)
        /\ proc[c].pc \in {"stored", "picked"}
        /\ UNCHANGED <<db, issued, dirs, remote, host>>
    BY DEF BaseInv, TypeOK, PickRepositories, ResumePick, At
  <1>2. Kept /\ RegistryInv' /\ TablesOfRepositories'
    BY <1>1, KeptWhenUnchanged
  <1>3. proc[c].todo = {} /\ proc[c].done = {} /\ proc[c].items = {}
    BY <1>1 DEF CommandSound, Preparing
  <1>4. PICK pc \in {"stored", "picked"} :
           Goes(c, pc, {}, proc[c].todo, proc[c].item, proc[c].path, proc[c].done)
    <2>1. CASE PickRepositories(c)
      <3>1. PICK picked \in SUBSET Listed(proc[c].workspace), keys \in SUBSET ExternalKeys :
              proc' = [proc EXCEPT ![c].pc = "picked", ![c].picked = picked, ![c].selectors = keys]
        BY <2>1 DEF PickRepositories
      <3>2. picked \in SUBSET Repository
        BY <1>1, ListedKnown DEF Command
      <3> QED BY <1>1, <1>3, <3>1, <3>2, PickGoes
    <2>2. CASE ResumePick(c)
      <3>1. host[proc[c].workspace] \in Sources
        BY <1>1 DEF TypeOK, Command
      <3> QED BY <1>1, <1>3, <2>2, <3>1, ResumeGoes DEF ResumePick
    <2> QED BY <2>1, <2>2
  <1>5. pc \notin InWork /\ pc # "discovered"
    BY DEF InWork
  <1>6. dirs' \in [Paths -> Checkout \cup {NULL, OtherDir}]
    BY <1>1 DEF TypeOK
  <1>7. BaseInv'
    BY <1>1, <1>2, <1>3, <1>4, <1>5, <1>6, BaseGoes
  <1> QED BY <1>4, <1>7 DEF Goes, Preparing

LEMMA BaseSelect ==
    ASSUME BaseInv, NEW c \in Procs, proc[c] # NULL,
           SelectPicked(c)
             \/ \E items \in SUBSET Listed(proc[c].workspace) : SelectRepositories(c, items)
    PROVE  /\ BaseInv'
           /\ UNCHANGED <<db, issued, dirs, remote, host>> /\ proc[c].pc = "stored"
           /\ \E todo \in SUBSET Listed(proc[c].workspace) :
                 Goes(c, "listed", {}, todo, proc[c].item, proc[c].path, {})
  <1>1. /\ TypeOK /\ proc[c] \in Command /\ CommandSound(c) /\ proc[c].pc = "stored"
        /\ UNCHANGED <<db, issued, dirs, remote, host>>
    BY DEF BaseInv, TypeOK, SelectPicked, SelectRepositories, At
  <1>2. Kept /\ RegistryInv' /\ TablesOfRepositories'
    BY <1>1, KeptWhenUnchanged
  <1>3. proc[c].done = {} /\ proc[c].items = {} /\ proc[c].workspace \in WorkspaceIds
    BY <1>1 DEF CommandSound, Preparing, Command
  <1>4. PICK todo \in SUBSET Listed(proc[c].workspace) :
           Goes(c, "listed", proc[c].items, todo, proc[c].item, proc[c].path, proc[c].done)
    <2>1. CASE SelectPicked(c)
      <3>1. PICK todo \in SUBSET Listed(proc[c].workspace) :
              proc' = [proc EXCEPT ![c].pc = "listed", ![c].picked = {}, ![c].selectors = {},
                                   ![c].todo = todo]
        BY <2>1 DEF SelectPicked
      <3>2. todo \in SUBSET Repository
        BY <1>3, ListedKnown
      <3> QED BY <1>1, <3>1, <3>2, SelectedGoes
    <2>2. CASE \E todo \in SUBSET Listed(proc[c].workspace) : SelectRepositories(c, todo)
      <3>1. PICK todo \in SUBSET Listed(proc[c].workspace) : SelectRepositories(c, todo)
        BY <2>2
      <3>2. todo \in SUBSET Repository
        BY <1>3, ListedKnown
      <3> QED BY <1>1, <3>1, <3>2, TodoGoes DEF SelectRepositories
    <2> QED BY <2>1, <2>2
  <1>5. /\ \A i \in todo \cup proc[c].done : RepositoryKnown(c, i)
        /\ \A i, j \in todo : i.resource = j.resource => i = j
    BY <1>3, ListedKnown DEF RepositoryKnown
  <1>6. dirs' \in [Paths -> Checkout \cup {NULL, OtherDir}]
    BY <1>1 DEF TypeOK
  <1>7. "listed" \notin InWork \cup Preparing
    BY DEF InWork, Preparing
  <1>8. BaseInv'
    BY <1>1, <1>2, <1>3, <1>4, <1>5, <1>6, <1>7, BaseGoes
  <1> QED BY <1>1, <1>3, <1>4, <1>8

LEMMA BaseTake ==
    ASSUME BaseInv, NEW c \in Procs, proc[c] # NULL, NEW item \in proc[c].todo,
           Adopt(c, item) \/ FindAbsent(c, item)
    PROVE  /\ BaseInv'
           /\ \E pc \in {"valid", "absent"} :
              /\ pc = "valid" => Adopt(c, item)
              /\ Goes(c, pc, proc[c].items, proc[c].todo, item, TargetPath(c, item), proc[c].done)
  <1>1. /\ TypeOK /\ proc[c] \in Command /\ CommandSound(c) /\ proc[c].pc = "listed"
        /\ UNCHANGED <<db, issued, dirs, remote, host>>
    BY DEF BaseInv, TypeOK, Adopt, FindAbsent, InHand, At
  <1>2. Kept /\ RegistryInv' /\ TablesOfRepositories'
    BY <1>1, KeptWhenUnchanged
  <1>3. /\ item \in Repository /\ proc[c].items = {}
        /\ \A i \in proc[c].todo \cup proc[c].done : RepositoryKnown(c, i)
        /\ \A i, j \in proc[c].todo : i.resource = j.resource => i = j
    BY <1>1 DEF CommandSound, Command
  <1>4. /\ TargetPath(c, item) \in Paths
        /\ TargetPath(c, item) = IF item.path # NULL THEN item.path
                                 ELSE Destination[<<proc[c].dir, item.name>>]
    BY <1>3, TargetIsPath
  <1>5. PICK pc \in {"valid", "absent"} :
           /\ pc = "valid" => Adopt(c, item)
           /\ proc' = [proc EXCEPT ![c].pc = pc, ![c].item = item, ![c].path = TargetPath(c, item)]
    BY DEF Adopt, FindAbsent, InHand
  <1>6. Goes(c, pc, proc[c].items, proc[c].todo, item, TargetPath(c, item), proc[c].done)
    <2>1. pc \in InWork /\ item \in Repository /\ TargetPath(c, item) \in Paths /\ TypeOK
      BY <1>1, <1>3, <1>4, <1>5 DEF InWork
    <2> DEFINE path == TargetPath(c, item)
    <2>2. proc' = [proc EXCEPT ![c].pc = pc, ![c].item = item, ![c].path = path]
      BY <1>5
    <2>3. path \in Paths
      BY <2>1
    <2> HIDE DEF path
    <2>4. Goes(c, pc, proc[c].items, proc[c].todo, item, path, proc[c].done)
      BY <2>1, <2>2, <2>3, TakeGoes
    <2> QED BY <2>4 DEF path
  <1>7. dirs' \in [Paths -> Checkout \cup {NULL, OtherDir}]
    BY <1>1 DEF TypeOK
  <1>8. pc \notin Preparing
    BY DEF Preparing
  <1>9. BaseInv'
    BY <1>1, <1>2, <1>3, <1>4, <1>6, <1>7, <1>8, BaseGoes
  <1> QED BY <1>5, <1>6, <1>9

(* What the steps of a clone do to the directories.                        *)
LEMMA OriginsAreOrigins ==
    ASSUME NEW s \in Sources, NEW k \in ExternalKeys
    PROVE  Origins(s, k) \subseteq AnyOrigin
  BY DEF AnyOrigin

LEMMA CloneBeginsDirs ==
    ASSUME BaseInv, NEW c \in Procs, CloneBegins(c)
    PROVE  /\ proc[c].path \in Paths /\ dirs[proc[c].path] = NULL
           /\ dirs' \in [Paths -> Checkout \cup {NULL, OtherDir}]
           /\ \A p \in Paths \ {proc[c].path} : dirs'[p] = dirs[p]
           /\ dirs'[proc[c].path] \in Checkout /\ ~dirs'[proc[c].path].complete
  <1>1. /\ TypeOK /\ proc[c] \in Command /\ CommandSound(c) /\ proc[c].pc \in InWork
        /\ dirs \in [Paths -> Checkout \cup {NULL, OtherDir}]
    BY DEF BaseInv, TypeOK, CloneBegins, At, InWork
  <1>2. proc[c].path \in Paths /\ proc[c].source \in Sources
    BY <1>1 DEF CommandSound, Command
  <1>3. PICK p \in ProviderIds : /\ remote[proc[c].source][p] # NULL
           /\ \E origin \in Origins(proc[c].source, remote[proc[c].source][p]) :
                dirs' = [dirs EXCEPT ![proc[c].path] = [origin |-> origin, complete |-> FALSE]]
    BY DEF CloneBegins
  <1>4. remote[proc[c].source][p] \in ExternalKeys
    BY <1>1, <1>2, <1>3 DEF TypeOK
  <1>5. PICK origin \in AnyOrigin :
           dirs' = [dirs EXCEPT ![proc[c].path] = [origin |-> origin, complete |-> FALSE]]
    BY <1>2, <1>3, <1>4, OriginsAreOrigins
  <1>6. /\ [origin |-> origin, complete |-> FALSE] \in Checkout
        /\ ~[origin |-> origin, complete |-> FALSE].complete
    BY DEF Checkout
  <1>7. dirs[proc[c].path] = NULL
    BY DEF CloneBegins
  <1> QED BY <1>1, <1>2, <1>5, <1>6, <1>7

LEMMA CloneCompletesDirs ==
    ASSUME BaseInv, NEW c \in Procs, CloneCompletes(c)
    PROVE  /\ proc[c].path \in Paths
           /\ dirs' \in [Paths -> Checkout \cup {NULL, OtherDir}]
           /\ \A p \in Paths \ {proc[c].path} : dirs'[p] = dirs[p]
           /\ dirs'[proc[c].path] \in Checkout
           /\ dirs'[proc[c].path].origin = dirs[proc[c].path].origin
           /\ dirs'[proc[c].path].complete
  <1>1. /\ TypeOK /\ proc[c] \in Command /\ CommandSound(c) /\ proc[c].pc \in InWork
        /\ dirs \in [Paths -> Checkout \cup {NULL, OtherDir}]
        /\ dirs[proc[c].path] \in Checkout
    BY DEF BaseInv, TypeOK, CloneCompletes, At, InWork, ClonesApart
  <1>2. proc[c].path \in Paths
    BY <1>1 DEF CommandSound
  <1> DEFINE x == [dirs[proc[c].path] EXCEPT !.complete = TRUE]
  <1>3. dirs' = [dirs EXCEPT ![proc[c].path] = x]
    BY DEF CloneCompletes
  <1>4. x \in Checkout /\ x.complete /\ x.origin = dirs[proc[c].path].origin
    BY <1>1 DEF Checkout
  <1> HIDE DEF x
  <1> QED BY <1>1, <1>2, <1>3, <1>4

LEMMA CloneFailsDirs ==
    ASSUME BaseInv, NEW c \in Procs, CloneFails(c)
    PROVE  /\ proc[c].path \in Paths
           /\ dirs' \in [Paths -> Checkout \cup {NULL, OtherDir}]
           /\ \A p \in Paths \ {proc[c].path} : dirs'[p] = dirs[p]
           /\ dirs'[proc[c].path] \in {NULL, dirs[proc[c].path]}
  <1>1. /\ TypeOK /\ proc[c] \in Command /\ CommandSound(c) /\ proc[c].pc \in InWork
        /\ dirs \in [Paths -> Checkout \cup {NULL, OtherDir}]
    BY DEF BaseInv, TypeOK, CloneFails, At, InWork
  <1>2. proc[c].path \in Paths
    BY <1>1 DEF CommandSound
  <1>3. dirs' \in {dirs, [dirs EXCEPT ![proc[c].path] = NULL]}
    BY DEF CloneFails
  <1> QED BY <1>1, <1>2, <1>3

LEMMA BaseClone ==
    ASSUME BaseInv, NEW c \in Procs, proc[c] # NULL,
           CloneBegins(c) \/ CloneCompletes(c) \/ InspectClone(c)
    PROVE  /\ BaseInv'
           /\ \E pc \in {"cloning", "cloned", "valid"} :
              /\ pc = "cloning" => CloneBegins(c)
              /\ pc = "valid" => InspectClone(c)
              /\ Goes(c, pc, proc[c].items, proc[c].todo, proc[c].item, proc[c].path, proc[c].done)
  <1>1. /\ TypeOK /\ proc[c] \in Command /\ CommandSound(c) /\ proc[c].pc \in InWork
        /\ UNCHANGED <<db, issued, remote, host>>
    BY DEF BaseInv, TypeOK, CloneBegins, CloneCompletes, InspectClone, At, InWork
  <1>2. Kept /\ RegistryInv' /\ TablesOfRepositories'
    BY <1>1, KeptWhenUnchanged
  <1>3. PICK pc \in {"cloning", "cloned", "valid"} :
           /\ proc' = [proc EXCEPT ![c].pc = pc]
           /\ \/ pc = "cloning" /\ CloneBegins(c)
              \/ pc = "cloned" /\ CloneCompletes(c) /\ At(c, "cloning")
              \/ pc = "valid" /\ InspectClone(c) /\ UNCHANGED dirs
    BY DEF CloneBegins, CloneCompletes, InspectClone
  <1>4. Goes(c, pc, proc[c].items, proc[c].todo, proc[c].item, proc[c].path, proc[c].done)
    BY <1>1, <1>3, CounterGoes DEF InWork
  <1>5. /\ dirs' \in [Paths -> Checkout \cup {NULL, OtherDir}]
        /\ \A d \in Procs \ {c} : At(d, "cloning") => dirs'[proc[d].path] = dirs[proc[d].path]
        /\ pc = "cloning" => /\ dirs[proc[c].path] = NULL
                             /\ dirs'[proc[c].path] \in Checkout
                             /\ ~dirs'[proc[c].path].complete
    <2>1. \A d \in Procs : At(d, "cloning") =>
             proc[d].path \in Paths /\ dirs[proc[d].path] # NULL
      BY AbsenceAssumption DEF BaseInv, ClonesApart, CommandSound, At, InWork
    <2>2. CASE CloneBegins(c) /\ pc = "cloning"
      BY <2>1, <2>2, CloneBeginsDirs
    <2>3. CASE CloneCompletes(c) /\ At(c, "cloning") /\ pc = "cloned"
      <3>1. \A d \in Procs \ {c} : At(d, "cloning") => proc[d].path # proc[c].path
        BY <2>3 DEF BaseInv, ClonesApart
      <3> QED BY <2>1, <2>3, <3>1, CloneCompletesDirs
    <2>4. CASE UNCHANGED dirs /\ pc = "valid"
      BY <1>1, <2>4 DEF TypeOK
    <2> QED BY <1>3, <2>2, <2>3, <2>4
  <1>6. pc \notin Preparing /\ pc # "discovered"
    BY DEF Preparing
  <1>7. /\ proc[c].items = {}
        /\ \A i \in proc[c].todo \cup proc[c].done : RepositoryKnown(c, i)
        /\ \A i, j \in proc[c].todo : i.resource = j.resource => i = j
        /\ proc[c].item \in proc[c].todo /\ proc[c].path \in Paths
        /\ proc[c].path = IF proc[c].item.path # NULL THEN proc[c].item.path
                          ELSE Destination[<<proc[c].dir, proc[c].item.name>>]
    BY SMTT(30), <1>1 DEF CommandSound, InWork
  <1>8. BaseInv'
    BY <1>1, <1>2, <1>4, <1>5, <1>6, <1>7, BaseGoes
  <1> QED BY <1>3, <1>4, <1>8

LEMMA BaseNext ==
    ASSUME BaseInv, Kept, RegistryInv', TablesOfRepositories',
           dirs' \in [Paths -> Checkout \cup {NULL, OtherDir}], UNCHANGED <<remote, host>>,
           NEW c \in Procs, proc[c] # NULL, NEW item \in proc[c].todo, NEW done \in SUBSET {item},
           NextRepository(c, item, done), proc[c].pc # "discovered",
           \A d \in Procs \ {c} : At(d, "cloning") => dirs'[proc[d].path] = dirs[proc[d].path]
    PROVE  /\ BaseInv'
           /\ Goes(c, "listed", {}, proc[c].todo \ {item}, NULL, NULL, proc[c].done \cup done)
  <1>1. TypeOK /\ proc[c] \in Command /\ CommandSound(c)
    BY DEF BaseInv, TypeOK
  <1>2. /\ item \in Repository /\ proc[c].items = {}
        /\ \A i \in proc[c].todo \cup proc[c].done : RepositoryKnown(c, i)
        /\ \A i, j \in proc[c].todo : i.resource = j.resource => i = j
    BY <1>1 DEF CommandSound, Command
  <1>3. Goes(c, "listed", proc[c].items, proc[c].todo \ {item}, NULL, NULL, proc[c].done \cup done)
    BY <1>1, <1>2, NextGoes
  <1> DEFINE todo == proc[c].todo \ {item}
             all == proc[c].done \cup done
  <1>4. /\ \A i \in todo \cup all : RepositoryKnown(c, i)
        /\ \A i, j \in todo : i.resource = j.resource => i = j
    BY <1>2
  <1>5. Goes(c, "listed", {}, todo, NULL, NULL, all)
    BY <1>2, <1>3
  <1>6. "listed" \notin Preparing \cup InWork
    BY DEF Preparing, InWork
  <1> HIDE DEF todo, all
  <1>7. BaseInv'
    BY <1>4, <1>5, <1>6, BaseGoes
  <1> QED BY <1>5, <1>7 DEF todo, all

(* The steps that are done with a repository.                              *)
Moves(c, item, done) ==
    \/ AlreadyCloned(c, item) /\ done = {item}
    \/ RefuseRepository(c, item) /\ done = {}
    \/ item = proc[c].item /\ \/ CloneFails(c) /\ done = {}
                              \/ FailRepository(c) /\ done = {}
                              \/ Register(c) /\ done = {item}
                              \/ RegisterFails(c) /\ done = {}

LEMMA BaseMoves ==
    ASSUME BaseInv, NEW c \in Procs, proc[c] # NULL,
           NEW item, AlreadyCloned(c, item) \/ RefuseRepository(c, item) => item \in proc[c].todo,
           NEW done, Moves(c, item, done)
    PROVE  /\ BaseInv' /\ item \in proc[c].todo /\ done \in SUBSET {item}
           /\ Goes(c, "listed", {}, proc[c].todo \ {item}, NULL, NULL, proc[c].done \cup done)
  <1>1. TypeOK /\ proc[c] \in Command /\ CommandSound(c)
    BY DEF BaseInv, TypeOK
  <1>2. /\ NextRepository(c, item, done) /\ UNCHANGED <<remote, host>> /\ done \in SUBSET {item}
        /\ proc[c].pc # "discovered" /\ item \in proc[c].todo
    <2>1. CASE AlreadyCloned(c, item) /\ done = {item}
      BY <2>1 DEF AlreadyCloned, At
    <2>2. CASE RefuseRepository(c, item) /\ done = {}
      BY <2>2 DEF RefuseRepository, At
    <2>3. proc[c].pc \in InWork => proc[c].item \in proc[c].todo
      BY <1>1 DEF CommandSound
    <2>4. CASE CloneFails(c) /\ done = {} /\ item = proc[c].item
      BY <2>3, <2>4 DEF CloneFails, At, InWork
    <2>5. CASE FailRepository(c) /\ done = {} /\ item = proc[c].item
      BY <2>3, <2>5 DEF FailRepository, At, InWork
    <2>6. CASE Register(c) /\ done = {item} /\ item = proc[c].item
      BY <2>3, <2>6 DEF Register, At, InWork
    <2>7. CASE RegisterFails(c) /\ done = {} /\ item = proc[c].item
      BY <2>3, <2>7 DEF RegisterFails, At, InWork
    <2> QED BY <2>1, <2>2, <2>4, <2>5, <2>6, <2>7 DEF Moves
  <1>3. Kept /\ RegistryInv' /\ TablesOfRepositories'
    <2>1. CASE Register(c)
      BY <2>1, RegisterTables
    <2>2. CASE ~Register(c)
      <3>1. UNCHANGED <<db, issued>>
        BY <2>2 DEF Moves, AlreadyCloned, RefuseRepository, CloneFails, FailRepository, RegisterFails
      <3> QED BY <3>1, KeptWhenUnchanged
    <2> QED BY <2>1, <2>2
  <1>4. /\ dirs' \in [Paths -> Checkout \cup {NULL, OtherDir}]
        /\ \A d \in Procs \ {c} : At(d, "cloning") => dirs'[proc[d].path] = dirs[proc[d].path]
    <2>1. CASE CloneFails(c)
      <3>1. \A d \in Procs \ {c} : At(d, "cloning") =>
               proc[d].path # proc[c].path /\ proc[d].path \in Paths
        BY <2>1 DEF BaseInv, ClonesApart, CommandSound, At, InWork, CloneFails
      <3> QED BY <2>1, <3>1, CloneFailsDirs
    <2>2. CASE ~CloneFails(c)
      <3>1. UNCHANGED dirs
        BY <2>2 DEF Moves, AlreadyCloned, RefuseRepository, Register, FailRepository, RegisterFails
      <3> QED BY <1>1, <3>1 DEF TypeOK
    <2> QED BY <2>1, <2>2
  <1> QED BY <1>2, <1>3, <1>4, BaseNext

LEMMA BaseEnds ==
    ASSUME BaseInv, NEW c \in Procs, GiveUp(c) \/ Finish(c) \/ Crash(c)
    PROVE  BaseInv'
  <1>1. /\ UNCHANGED <<db, issued, dirs, remote, host>>
        /\ proc' = [proc EXCEPT ![c] = NULL]
    BY DEF GiveUp, Finish, Crash
  <1>2. Kept /\ RegistryInv' /\ TablesOfRepositories'
    BY <1>1, KeptWhenUnchanged
  <1>3. /\ proc' \in [Procs -> Command \cup {NULL}]
        /\ \A d \in Procs : proc'[d] \in {NULL, proc[d]}
    BY <1>1 DEF BaseInv, TypeOK
  <1> QED BY <1>1, <1>2, <1>3, BaseLeaves DEF BaseInv, TypeOK

LEMMA OtherRefreshTables ==
    ASSUME BaseInv, OtherRefresh
    PROVE  /\ Kept /\ RegistryInv' /\ TablesOfRepositories'
           /\ db'.locations = db.locations /\ db'.workspaces = db.workspaces
  <1>1. PICK w \in WorkspaceIds, rs \in SUBSET ResourceIds :
          \E stored \in [rs -> PublishedRepositories(host[w])] :
             Refresh(w, host[w], PublishedRepositories(host[w]), stored)
    BY DEF OtherRefresh
  <1>2. host[w] \in Sources /\ PublishedRepositories(host[w]) \in SUBSET Item
    BY PublishedItems DEF BaseInv, TypeOK
  <1> DEFINE items == PublishedRepositories(host[w])
  <1>3. PICK stored \in [rs -> items] : Refresh(w, host[w], items, stored)
    BY <1>1
  <1>4. items \in SUBSET Item
    BY <1>2
  <1> HIDE DEF items
  <1> QED BY <1>2, <1>3, <1>4, RefreshTables

LEMMA BaseEnvironment ==
    ASSUME BaseInv, AddWorkspaces \/ OtherRefresh \/ SwitchHost \/ EditHost \/ EditDirs
    PROVE  BaseInv'
  <1>1. UNCHANGED proc /\ TypeOK
    BY DEF AddWorkspaces, OtherRefresh, SwitchHost, EditHost, EditDirs, BaseInv
  <1>2. Kept /\ RegistryInv' /\ TablesOfRepositories'
    <2>1. CASE AddWorkspaces
      BY <2>1, WorkspaceTables
    <2>2. CASE OtherRefresh
      BY <2>2, OtherRefreshTables
    <2>3. CASE SwitchHost \/ EditHost \/ EditDirs
      <3>1. UNCHANGED <<db, issued>>
        BY <2>3 DEF SwitchHost, EditHost, EditDirs
      <3> QED BY <3>1, KeptWhenUnchanged
    <2> QED BY <2>1, <2>2, <2>3
  <1>3. remote' \in [Sources -> [ProviderIds -> ExternalKeys \cup {NULL}]]
    <2>1. CASE EditHost
      <3>1. PICK s \in Sources, p \in ProviderIds, key \in ExternalKeys :
               remote' = [remote EXCEPT ![s][p] = key]
        BY <2>1 DEF EditHost
      <3>2. remote \in [Sources -> [ProviderIds -> ExternalKeys \cup {NULL}]]
        BY <1>1 DEF TypeOK
      <3> QED BY <3>1, <3>2
    <2>2. CASE ~EditHost
      BY <1>1, <2>2 DEF AddWorkspaces, OtherRefresh, SwitchHost, EditDirs, TypeOK
    <2> QED BY <2>1, <2>2
  <1>4. host' \in [WorkspaceIds -> Sources]
    BY <1>1 DEF AddWorkspaces, OtherRefresh, SwitchHost, EditHost, EditDirs, TypeOK
  <1>5. /\ dirs' \in [Paths -> Checkout \cup {NULL, OtherDir}]
        /\ \A d \in Procs : At(d, "cloning") /\ proc'[d] # NULL =>
              dirs'[proc[d].path] = dirs[proc[d].path]
    <2>1. CASE EditDirs
      <3>1. \A d \in Procs : proc[d] = NULL
        BY <2>1 DEF EditDirs
      <3>2. PICK p \in Paths :
              \/ \E content \in {NULL, OtherDir} : dirs' = [dirs EXCEPT ![p] = content]
              \/ \E s \in Sources, key \in UserKeys : \E origin \in Origins(s, key) :
                    dirs' = [dirs EXCEPT ![p] = [origin |-> origin, complete |-> TRUE]]
        BY <2>1 DEF EditDirs
      <3>3. \E content \in Checkout \cup {NULL, OtherDir} : dirs' = [dirs EXCEPT ![p] = content]
        <4>1. CASE \E content \in {NULL, OtherDir} : dirs' = [dirs EXCEPT ![p] = content]
          BY <4>1
        <4>2. CASE \E s \in Sources, key \in UserKeys : \E origin \in Origins(s, key) :
                      dirs' = [dirs EXCEPT ![p] = [origin |-> origin, complete |-> TRUE]]
          <5>1. PICK origin \in AnyOrigin :
                   dirs' = [dirs EXCEPT ![p] = [origin |-> origin, complete |-> TRUE]]
            BY <4>2, OriginsAreOrigins, CloneAssumption
          <5>2. [origin |-> origin, complete |-> TRUE] \in Checkout
            BY DEF Checkout
          <5> QED BY <5>1, <5>2
        <4> QED BY <3>2, <4>1, <4>2
      <3> QED BY <1>1, <3>1, <3>3 DEF At, TypeOK
    <2>2. CASE ~EditDirs
      BY <1>1, <2>2 DEF AddWorkspaces, OtherRefresh, SwitchHost, EditHost, TypeOK
    <2> QED BY <2>1, <2>2
  <1> QED BY <1>1, <1>2, <1>3, <1>4, <1>5, BaseLeaves DEF TypeOK

LEMMA BaseUnchanged ==
    ASSUME BaseInv, UNCHANGED clone
    PROVE  BaseInv'
  <1>1. UNCHANGED <<db, issued, dirs, remote, host, proc>>
    BY DEF clone
  <1>2. Kept /\ RegistryInv' /\ TablesOfRepositories'
    BY <1>1, KeptWhenUnchanged
  <1> QED BY <1>1, <1>2, BaseLeaves DEF BaseInv, TypeOK

(* A step of the clone of one repository, by what it does.                 *)
LEMMA RepositorySteps ==
    ASSUME NEW c \in Procs, RepositoryStep(c)
    PROVE  \/ \E item \in proc[c].todo : Adopt(c, item) \/ FindAbsent(c, item)
           \/ CloneBegins(c) \/ CloneCompletes(c) \/ InspectClone(c)
           \/ \E item, done :
                 /\ AlreadyCloned(c, item) \/ RefuseRepository(c, item) => item \in proc[c].todo
                 /\ Moves(c, item, done)
  <1>1. CASE \E item \in proc[c].todo : AlreadyCloned(c, item) \/ RefuseRepository(c, item)
    BY <1>1 DEF Moves
  <1>2. CASE CloneFails(c) \/ FailRepository(c) \/ Register(c) \/ RegisterFails(c)
    <2>1. PICK done : Moves(c, proc[c].item, done)
      BY <1>2 DEF Moves
    <2>2. ~AlreadyCloned(c, proc[c].item)
      BY <1>2 DEF CloneFails, FailRepository, Register, RegisterFails, At, AlreadyCloned
    <2>3. ~RefuseRepository(c, proc[c].item)
      BY <1>2 DEF CloneFails, FailRepository, Register, RegisterFails, At, RefuseRepository
    <2> QED BY <2>1, <2>2, <2>3
  <1> QED BY <1>1, <1>2 DEF RepositoryStep

LEMMA BaseStep ==
    ASSUME BaseInv, [Next]_clone
    PROVE  BaseInv'
  <1>1. CASE UNCHANGED clone
    BY <1>1, BaseUnchanged
  <1>2. ASSUME NEW c \in Procs, NEW w \in WorkspaceIds, Resolve(c, w)
        PROVE  BaseInv'
    BY <1>2, BaseResolve
  <1>3. ASSUME NEW c \in Procs, proc[c] # NULL, RepositoryStep(c)
        PROVE  BaseInv'
    BY <1>3, RepositorySteps, BaseTake, BaseClone, BaseMoves
  <1>4. ASSUME NEW c \in Procs, proc[c] # NULL, Step(c)
        PROVE  BaseInv'
    BY <1>3, <1>4, BaseDiscover, BasePick, BaseSelect, BaseEnds DEF Step
  <1>5. CASE Environment
    BY <1>5, BaseEnds, BaseEnvironment DEF Environment
  <1> QED BY <1>1, <1>2, <1>4, <1>5 DEF Next

LEMMA BaseInit == Init => BaseInv
  <1> SUFFICES ASSUME Init PROVE BaseInv
    OBVIOUS
  <1>1. RegistryInv
    BY InitRegistryInv DEF Init
  <1>2. TypeOK
    BY <1>1 DEF Init, TypeOK, RegistryInv
  <1>3. TablesOfRepositories
    BY DEF Init, RegistryInit, EmptyDatabase, TablesOfRepositories, HasResource
  <1> QED BY <1>1, <1>2, <1>3 DEF Init, BaseInv, ClonesApart, At

(* The tables stay consistent and the directories typed whatever the       *)
(* commands, the users and the hosts do, every command works on            *)
(* repositories that are there, and no two clones fill one directory.      *)
THEOREM BaseInvInductive == Spec => []BaseInv
  <1>1. Init => BaseInv
    BY BaseInit
  <1>2. BaseInv /\ [Next]_clone => BaseInv'
    BY BaseStep
  <1> QED BY <1>1, <1>2, PTL DEF Spec

-----------------------------------------------------------------------------
(* The directories. *)

(* Only three steps of a clone and the users change a directory.           *)
LEMMA WhoChanges ==
    ASSUME BaseInv, [Next]_clone, NEW p \in Paths, dirs'[p] # dirs[p]
    PROVE  \/ EditDirs
           \/ \E c \in Procs : /\ proc[c] # NULL /\ p = proc[c].path
                               /\ CloneBegins(c) \/ CloneCompletes(c) \/ CloneFails(c)
  <1>1. dirs' # dirs
    OBVIOUS
  <1>2. ASSUME NEW c \in Procs, proc[c] # NULL, RepositoryStep(c)
        PROVE  CloneBegins(c) \/ CloneCompletes(c) \/ CloneFails(c)
    BY ZenonT(60), <1>1, <1>2 DEF RepositoryStep, AlreadyCloned, Adopt, FindAbsent, InHand, RefuseRepository,
       InspectClone, FailRepository, Register, RegisterFails
  <1>3. ASSUME NEW c \in Procs, proc[c] # NULL, Step(c)
        PROVE  CloneBegins(c) \/ CloneCompletes(c) \/ CloneFails(c)
    BY <1>1, <1>2, <1>3 DEF Step, Discover, StoreRepositories, PickRepositories, ResumePick,
       SelectPicked, SelectRepositories, GiveUp, Finish
  <1>4. \/ EditDirs
        \/ \E c \in Procs : /\ proc[c] # NULL
                            /\ CloneBegins(c) \/ CloneCompletes(c) \/ CloneFails(c)
    BY <1>1, <1>3 DEF Next, clone, Resolve, Environment, Crash, AddWorkspaces, OtherRefresh,
       SwitchHost, EditHost
  <1> QED BY <1>4, CloneBeginsDirs, CloneCompletesDirs, CloneFailsDirs

(* While commands run, a checkout keeps its origin unless its clone fails. *)
LEMMA CheckoutStays ==
    ASSUME BaseInv, [Next]_clone, NEW p \in Paths, IsCheckout(p),
           \E d \in Procs : proc[d] # NULL,
           \A c \in Procs : CloneFails(c) => proc[c].path # p
    PROVE  IsCheckout(p)' /\ dirs'[p].origin = dirs[p].origin
  <1>1. CASE dirs'[p] = dirs[p]
    BY <1>1 DEF IsCheckout
  <1>2. CASE dirs'[p] # dirs[p]
    <2>1. ~EditDirs
      BY DEF EditDirs
    <2>2. PICK c \in Procs : /\ p = proc[c].path
                             /\ CloneBegins(c) \/ CloneCompletes(c) \/ CloneFails(c)
      BY <1>2, <2>1, WhoChanges
    <2>3. ~CloneBegins(c)
      BY <2>2, CloneBeginsDirs DEF IsCheckout
    <2>4. CloneCompletes(c)
      BY <2>2, <2>3
    <2> QED BY <2>2, <2>4, CloneCompletesDirs, AbsenceAssumption DEF IsCheckout
  <1> QED BY <1>1, <1>2

LEMMA OverwritesNothing ==
    ASSUME BaseInv, [Next]_clone, proc' # proc, NEW p \in Paths,
           dirs[p] = OtherDir \/ (IsCheckout(p) /\ dirs[p].complete)
    PROVE  dirs'[p] = dirs[p]
  <1> SUFFICES ASSUME dirs'[p] # dirs[p] PROVE FALSE
    OBVIOUS
  <1>1. PICK c \in Procs : /\ p = proc[c].path
                           /\ CloneBegins(c) \/ CloneCompletes(c) \/ CloneFails(c)
    BY WhoChanges DEF EditDirs
  <1>2. CASE CloneBegins(c)
    BY <1>1, <1>2, CloneBeginsDirs, AbsenceAssumption DEF IsCheckout
  <1>3. CASE CloneCompletes(c) \/ CloneFails(c)
    <2>1. dirs[p] \in Checkout /\ ~dirs[p].complete
      BY <1>1, <1>3 DEF CloneCompletes, CloneFails, BaseInv, ClonesApart
    <2> QED BY <2>1, AbsenceAssumption DEF IsCheckout
  <1> QED BY <1>1, <1>2, <1>3

(* No command changes a complete checkout or anything else it finds at a   *)
(* path, whatever the other commands do meanwhile.                         *)
THEOREM NothingIsOverwritten == Spec => NothingOverwritten
  <1>1. BaseInv /\ [Next]_clone =>
          \A p \in Paths :
            (proc' # proc /\ (dirs[p] = OtherDir \/ (IsCheckout(p) /\ dirs[p].complete)))
               => dirs'[p] = dirs[p]
    BY OverwritesNothing
  <1> QED BY <1>1, BaseInvInductive, PTL DEF Spec, NothingOverwritten

-----------------------------------------------------------------------------
(* What a step does to the command that takes it. *)

Prepares(c) ==
    /\ proc'[c] # NULL /\ proc'[c].pc \in Preparing
    /\ proc'[c].todo = {} /\ proc'[c].done = {}
    /\ proc'[c].items \subseteq PublishedRepositories(proc'[c].source)

Selects(c) ==
    /\ UNCHANGED <<db, issued, dirs, remote, host>>
    /\ proc[c] # NULL /\ proc[c].pc = "stored"
    /\ \E todo \in SUBSET Listed(proc[c].workspace) :
          Goes(c, "listed", {}, todo, proc[c].item, proc[c].path, {})

Takes(c) ==
    /\ UNCHANGED <<db, issued, dirs, remote, host>> /\ proc[c].pc = "listed"
    /\ \E item \in proc[c].todo, pc \in {"valid", "absent"} :
          /\ pc = "valid" => Valid(TargetPath(c, item), item)
          /\ Goes(c, pc, {}, proc[c].todo, item, TargetPath(c, item), proc[c].done)

Clones(c) ==
    /\ UNCHANGED <<db, issued, remote, host>> /\ proc[c].pc \in InWork
    /\ \E pc \in {"cloning", "cloned", "valid"} :
          /\ pc = "valid" => Valid(proc[c].path, proc[c].item) /\ UNCHANGED dirs
          /\ pc = "cloning" => dirs[proc[c].path] = NULL
          /\ Goes(c, pc, {}, proc[c].todo, proc[c].item, proc[c].path, proc[c].done)

GoesOn(c) ==
    /\ proc[c].pc \in InWork \cup {"listed"}
    /\ \E item \in proc[c].todo : \E done \in SUBSET {item} :
          /\ Moves(c, item, done)
          /\ Goes(c, "listed", {}, proc[c].todo \ {item}, NULL, NULL, proc[c].done \cup done)

LEMMA StepKinds ==
    ASSUME BaseInv, NEW c \in Procs, proc[c] # NULL, Step(c), proc'[c] # NULL
    PROVE  Prepares(c) \/ Selects(c) \/ Takes(c) \/ Clones(c) \/ GoesOn(c)
  <1>1. TypeOK /\ proc[c] \in Command /\ CommandSound(c)
    BY DEF BaseInv, TypeOK
  <1>2. CASE Discover(c) \/ StoreRepositories(c) \/ PickRepositories(c) \/ ResumePick(c)
    <2>1. BaseInv'
      BY <1>2, BaseDiscover, BasePick
    <2>2. CommandSound(c)'
      BY <2>1 DEF BaseInv
    <2>3. /\ proc'[c].pc \in Preparing
          /\ proc'[c].items \subseteq PublishedRepositories(proc'[c].source)
      BY <1>2, BaseDiscover, BasePick
    <2> QED BY <2>2, <2>3 DEF Prepares, CommandSound
  <1>3. CASE SelectPicked(c)
               \/ \E items \in SUBSET Listed(proc[c].workspace) : SelectRepositories(c, items)
    BY <1>3, BaseSelect DEF Selects
  <1>4. CASE GiveUp(c) \/ Finish(c)
    BY <1>1, <1>4 DEF GiveUp, Finish, TypeOK
  <1>5. ASSUME NEW item \in proc[c].todo, Adopt(c, item) \/ FindAbsent(c, item)
        PROVE  Takes(c)
    <2>1. PICK pc \in {"valid", "absent"} :
            /\ pc = "valid" => Adopt(c, item)
            /\ Goes(c, pc, proc[c].items, proc[c].todo, item, TargetPath(c, item), proc[c].done)
      BY <1>5, BaseTake
    <2>2. proc[c].pc = "listed" /\ UNCHANGED <<db, issued, dirs, remote, host>>
      BY <1>5 DEF Adopt, FindAbsent, InHand, At
    <2>3. proc[c].items = {}
      BY <1>1, <2>2 DEF CommandSound
    <2> QED BY <2>1, <2>2, <2>3 DEF Takes, Adopt
  <1>6. CASE CloneBegins(c) \/ CloneCompletes(c) \/ InspectClone(c)
    <2>1. PICK pc \in {"cloning", "cloned", "valid"} :
            /\ pc = "cloning" => CloneBegins(c)
            /\ pc = "valid" => InspectClone(c)
            /\ Goes(c, pc, proc[c].items, proc[c].todo, proc[c].item, proc[c].path, proc[c].done)
      BY <1>6, BaseClone
    <2>2. proc[c].pc \in InWork /\ UNCHANGED <<db, issued, remote, host>>
      BY <1>6 DEF CloneBegins, CloneCompletes, InspectClone, At, InWork
    <2>3. proc[c].items = {}
      BY <1>1, <2>2 DEF CommandSound, InWork
    <2> QED BY <2>1, <2>2, <2>3 DEF Clones, CloneBegins, InspectClone
  <1>7. ASSUME NEW item, NEW done, Moves(c, item, done),
               AlreadyCloned(c, item) \/ RefuseRepository(c, item) => item \in proc[c].todo
        PROVE  GoesOn(c)
    <2>1. /\ item \in proc[c].todo /\ done \in SUBSET {item}
          /\ Goes(c, "listed", {}, proc[c].todo \ {item}, NULL, NULL, proc[c].done \cup done)
      BY <1>7, BaseMoves
    <2>2. proc[c].pc \in InWork \cup {"listed"}
      BY <1>7 DEF Moves, AlreadyCloned, RefuseRepository, CloneFails, FailRepository, Register,
         RegisterFails, At, InWork
    <2> QED BY <1>7, <2>1, <2>2 DEF GoesOn
  <1> QED BY <1>2, <1>3, <1>4, <1>5, <1>6, <1>7, RepositorySteps DEF Step

(* A command is as it was unless it takes the step.                        *)
LEMMA WhoSteps ==
    ASSUME BaseInv, [Next]_clone, NEW c \in Procs, proc'[c] # NULL
    PROVE  \/ proc'[c] = proc[c]
           \/ Prepares(c)
           \/ proc[c] # NULL /\ Step(c)
  <1>1. BaseInv' /\ proc \in [Procs -> Command \cup {NULL}]
    BY BaseStep DEF BaseInv, TypeOK
  <1>2. ASSUME NEW w \in WorkspaceIds, Resolve(c, w)
        PROVE  Prepares(c)
    <2>1. proc'[c].pc = "resolved"
      BY <1>1, <1>2 DEF Resolve
    <2> QED BY <1>1, <2>1 DEF BaseInv, CommandSound, Prepares, Preparing
  <1>3. ASSUME NEW d \in Procs \ {c}, NEW w \in WorkspaceIds, Resolve(d, w)
        PROVE  proc'[c] = proc[c]
    BY <1>1, <1>3 DEF Resolve
  <1>4. ASSUME NEW d \in Procs \ {c}, proc[d] # NULL, Step(d)
        PROVE  proc'[c] = proc[c]
    <2>1. CASE proc'[d] = NULL
      <3>1. CASE RepositoryStep(d)
        <4>1. PICK x \in Command : proc'[d] = x
          BY <1>4, <3>1, RepositorySteps, BaseTake, BaseClone, BaseMoves DEF Goes
        <4> QED BY <2>1, <4>1, AbsenceAssumption
      <3>2. CASE ~RepositoryStep(d)
        BY <1>1, <1>4, <3>2 DEF Step, Discover, StoreRepositories, PickRepositories, ResumePick,
           SelectPicked, SelectRepositories, GiveUp, Finish
      <3> QED BY <3>1, <3>2
    <2>2. CASE proc'[d] # NULL
      <3>1. CASE Prepares(d)
        <4>1. ~RepositoryStep(d)
          <5>1. SUFFICES ASSUME RepositoryStep(d) PROVE FALSE
            OBVIOUS
          <5>2. proc'[d].pc \in InWork \cup {"listed"}
            BY <1>4, <5>1, RepositorySteps, BaseTake, BaseClone, BaseMoves DEF Goes, InWork
          <5> QED BY <3>1, <5>2 DEF Prepares, Preparing, InWork
        <4> QED BY <1>1, <1>4, <4>1 DEF Step, Discover, StoreRepositories, PickRepositories,
               ResumePick, SelectPicked, SelectRepositories, GiveUp, Finish
      <3>2. CASE ~Prepares(d)
        BY <1>4, <2>2, <3>2, StepKinds DEF Selects, Takes, Clones, GoesOn, Goes
      <3> QED BY <3>1, <3>2
    <2> QED BY <2>1, <2>2
  <1>5. CASE Environment
    <2>1. CASE \E d \in Procs : Crash(d)
      BY <1>1, <2>1 DEF Crash
    <2> QED BY <1>5, <2>1 DEF Environment, AddWorkspaces, OtherRefresh, SwitchHost, EditHost, EditDirs
  <1>6. CASE UNCHANGED clone
    BY <1>6 DEF clone
  <1> QED BY <1>2, <1>3, <1>4, <1>5, <1>6 DEF Next

-----------------------------------------------------------------------------
(* What is registered. *)

Alone == \A c, d \in Procs : c = d

(* No other command's clone fails: a directory that was inspected stays.   *)
CheckoutsStay == Alone \/ "clone_error" \notin Events

InspectedInv ==
    \A c \in Procs : At(c, "valid") => Valid(proc[c].path, proc[c].item)

LEMMA ValidStays ==
    ASSUME BaseInv, [Next]_clone, NEW p \in Paths, NEW item, Valid(p, item),
           \E d \in Procs : proc[d] # NULL,
           \A c \in Procs : CloneFails(c) => proc[c].path # p
    PROVE  Valid(p, item)'
  BY CheckoutStays DEF Valid

LEMMA ItemPaths ==
    ASSUME BaseInv, NEW c \in Procs, At(c, "valid")
    PROVE  /\ proc[c].path \in Paths /\ proc[c].item \in proc[c].todo
           /\ proc[c].item \in Repository
  BY DEF BaseInv, TypeOK, CommandSound, At, InWork, Command

LEMMA InspectedStep ==
    ASSUME CheckoutsStay, BaseInv, InspectedInv, [Next]_clone
    PROVE  InspectedInv'
  <1> SUFFICES ASSUME NEW c \in Procs, At(c, "valid")'
               PROVE  Valid(proc[c].path, proc[c].item)'
    BY DEF InspectedInv
  <1>1. proc'[c] # NULL /\ proc'[c].pc = "valid"
    BY DEF At
  <1>2. CASE proc'[c] = proc[c]
    <2>1. At(c, "valid") /\ Valid(proc[c].path, proc[c].item) /\ proc[c] # NULL
      BY <1>1, <1>2 DEF At, InspectedInv
    <2>2. PICK p \in Paths : p = proc[c].path
      BY <2>1, ItemPaths DEF At
    <2>3. PICK item : item = proc[c].item
      OBVIOUS
    <2>4. \A d \in Procs : CloneFails(d) => proc[d].path # p
      BY <2>1, <2>2 DEF CheckoutsStay, Alone, CloneFails, At
    <2>5. proc'[c].path = p /\ proc'[c].item = item
      BY <1>2, <2>2, <2>3
    <2>6. Valid(p, item)'
      BY <2>1, <2>2, <2>3, <2>4, ValidStays
    <2> QED BY <2>5, <2>6 DEF Valid, IsCheckout
  <1>3. CASE Takes(c)
    <2>1. PICK item \in proc[c].todo, pc \in {"valid", "absent"} :
            /\ pc = "valid" => Valid(TargetPath(c, item), item)
            /\ Goes(c, pc, {}, proc[c].todo, item, TargetPath(c, item), proc[c].done)
      BY <1>3 DEF Takes
    <2>2. UNCHANGED dirs /\ proc'[c].path = TargetPath(c, item) /\ proc'[c].item = item /\ pc = "valid"
      BY <1>1, <1>3, <2>1 DEF Takes, Goes
    <2> QED BY <2>1, <2>2 DEF Valid, IsCheckout
  <1>4. CASE Clones(c)
    <2>1. PICK pc \in {"cloning", "cloned", "valid"} :
            /\ pc = "valid" => Valid(proc[c].path, proc[c].item) /\ UNCHANGED dirs
            /\ Goes(c, pc, {}, proc[c].todo, proc[c].item, proc[c].path, proc[c].done)
      BY <1>4 DEF Clones
    <2>2. UNCHANGED dirs /\ proc'[c].path = proc[c].path /\ proc'[c].item = proc[c].item /\ pc = "valid"
      BY <1>1, <2>1 DEF Goes
    <2> QED BY <2>1, <2>2 DEF Valid, IsCheckout
  <1>5. ~Prepares(c) /\ ~Selects(c) /\ ~GoesOn(c)
    BY <1>1 DEF Prepares, Preparing, Selects, GoesOn, Goes
  <1> QED BY <1>1, <1>2, <1>3, <1>4, <1>5, WhoSteps, StepKinds

(* What an inspected repository is registered as exists as its checkout,   *)
(* until it is registered.                                                 *)
THEOREM InspectedInvInductive ==
    ASSUME CheckoutsStay
    PROVE  Spec => []InspectedInv
  <1>1. Init => InspectedInv
    BY DEF Init, InspectedInv, At
  <1>2. BaseInv /\ InspectedInv /\ [Next]_clone => InspectedInv'
    BY InspectedStep
  <1> QED BY <1>1, <1>2, BaseInvInductive, PTL DEF Spec

LEMMA WhoRegisters ==
    ASSUME BaseInv, [Next]_clone, db'.locations # db.locations
    PROVE  \E c \in Procs : proc[c] # NULL /\ Register(c)
  <1>1. ASSUME NEW c \in Procs, proc[c] # NULL, Step(c)
        PROVE  Register(c)
    <2>1. CASE StoreRepositories(c)
      <3>1. /\ proc[c].workspace \in WorkspaceIds /\ proc[c].source \in Sources
            /\ proc[c].items \in SUBSET Item
        BY <1>1 DEF BaseInv, TypeOK, Command
      <3>2. PICK rs \in SUBSET ResourceIds : \E stored \in [rs -> proc[c].items] :
              Refresh(proc[c].workspace, proc[c].source, proc[c].items, stored)
        BY <2>1 DEF StoreRepositories
      <3>3. db'.locations = db.locations
        BY Zenon, <3>1, <3>2, RefreshTables
      <3> QED BY <3>3
    <2>2. CASE ~StoreRepositories(c)
      <3>1. db' # db
        OBVIOUS
      <3> QED BY Zenon, <1>1, <2>2, <3>1 DEF Step, Discover, PickRepositories, ResumePick, SelectPicked,
             SelectRepositories, GiveUp, Finish, RepositoryStep, AlreadyCloned, Adopt, FindAbsent,
             InHand, RefuseRepository, CloneBegins, CloneCompletes, CloneFails, InspectClone,
             FailRepository, RegisterFails
    <2> QED BY <2>1, <2>2
  <1>2. ~Environment
    <2>1. ~AddWorkspaces /\ ~OtherRefresh
      BY SMTT(30), WorkspaceTables, OtherRefreshTables
    <2> QED BY <2>1 DEF Environment, Crash, SwitchHost, EditHost, EditDirs
  <1> QED BY <1>1, <1>2 DEF Next, clone, Resolve

LEMMA RegistersExpected ==
    ASSUME BaseInv, InspectedInv, [Next]_clone, NEW l \in db'.locations \ db.locations
    PROVE  \E c \in Procs :
             /\ proc[c] # NULL /\ proc[c].item # NULL /\ proc[c].item.resource = l.resource
             /\ IsCheckout(l.path)
             /\ dirs[l.path].origin
                   \in Origins(db.resources[l.resource].source, proc[c].item.key)
  <1>1. PICK c \in Procs : proc[c] # NULL /\ Register(c)
    BY WhoRegisters
  <1> DEFINE item == proc[c].item
             p == proc[c].path
  <1>2. At(c, "valid") /\ Valid(p, item)
    BY <1>1 DEF Register, InspectedInv
  <1>3. /\ p \in Paths /\ item \in proc[c].todo /\ item \in Repository
        /\ item.source = db.resources[item.resource].source
    BY <1>1, <1>2, ItemPaths DEF BaseInv, CommandSound, RepositoryKnown
  <1>4. l = NewLocation(c)
    BY <1>1, RegisterTables DEF OtherLocations
  <1>5. l.resource = item.resource /\ l.path = p
    BY <1>4 DEF NewLocation
  <1>6. item.source \in Sources /\ item.key \in ExternalKeys /\ item # NULL
    BY <1>3, AbsenceAssumption DEF Repository
  <1>7. dirs[p] \in Checkout
    BY <1>2, <1>3 DEF Valid, IsCheckout, BaseInv, TypeOK
  <1>8. dirs[p].origin \in AnyOrigin
    BY <1>7 DEF Checkout
  <1>9. NormalizeRemote(dirs[p].origin) = NormalizeRemote(URL(item.source, item.key))
    BY <1>2 DEF Valid
  <1>10. dirs[p].origin \in Origins(item.source, item.key)
    BY <1>6, <1>8, <1>9, OriginsIdentify
  <1>11. IsCheckout(l.path)
    BY <1>2, <1>5 DEF Valid
  <1> QED BY <1>1, <1>3, <1>5, <1>6, <1>10, <1>11

(* A location is registered only for a checkout of its own repository, as  *)
(* long as no clone of another command fails between the inspection and    *)
(* the registration.                                                       *)
THEOREM OnlyExpectedRegistered ==
    ASSUME CheckoutsStay
    PROVE  Spec => RegisteredIsExpected
  <1>1. BaseInv /\ InspectedInv /\ [Next]_clone =>
          \A l \in db'.locations \ db.locations :
            \E c \in Procs :
               /\ proc[c] # NULL /\ proc[c].item # NULL /\ proc[c].item.resource = l.resource
               /\ IsCheckout(l.path)
               /\ dirs[l.path].origin
                     \in Origins(db.resources[l.resource].source, proc[c].item.key)
    BY RegistersExpected
  <1> QED BY <1>1, BaseInvInductive, InspectedInvInductive, PTL DEF Spec, RegisteredIsExpected

(* Every step leaves what was there.                                       *)
LEMMA NextKeeps ==
    ASSUME BaseInv, [Next]_clone
    PROVE  Kept
  <1>1. ASSUME NEW c \in Procs, proc[c] # NULL, Step(c), UNCHANGED <<db, issued>> => Kept
        PROVE  Kept
    <2>1. CASE StoreRepositories(c)
      <3>1. /\ proc[c].workspace \in WorkspaceIds /\ proc[c].source \in Sources
            /\ proc[c].items \in SUBSET Item
        BY <1>1 DEF BaseInv, TypeOK, Command
      <3>2. PICK rs \in SUBSET ResourceIds : \E stored \in [rs -> proc[c].items] :
              Refresh(proc[c].workspace, proc[c].source, proc[c].items, stored)
        BY <2>1 DEF StoreRepositories
      <3> QED BY <3>1, <3>2, RefreshTables
    <2>2. CASE Register(c)
      BY SMTT(30), <1>1, <2>2, RegisterTables
    <2>3. CASE ~StoreRepositories(c) /\ ~Register(c)
      BY Zenon, <1>1, <2>3 DEF Step, Discover, PickRepositories, ResumePick, SelectPicked,
             SelectRepositories, GiveUp, Finish, RepositoryStep, AlreadyCloned, Adopt, FindAbsent,
             InHand, RefuseRepository, CloneBegins, CloneCompletes, CloneFails, InspectClone,
             FailRepository, RegisterFails
    <2> QED BY <2>1, <2>2, <2>3
  <1>2. UNCHANGED <<db, issued>> => Kept
    BY KeptWhenUnchanged
  <1>3. CASE Environment
    BY <1>2, <1>3, WorkspaceTables, OtherRefreshTables
       DEF Environment, Crash, SwitchHost, EditHost, EditDirs
  <1> QED BY <1>1, <1>2, <1>3 DEF Next, clone, Resolve

-----------------------------------------------------------------------------
(* Without renames: the rows of the repositories say what their host says, *)
(* and no refresh changes them.                                            *)

RowSettled(row) == row.key = remote[row.source][row.provider] /\ row.name = NameOf[row.key]

SettledInv ==
    /\ \A r \in ResourceIds : HasResource(db, r) => RowSettled(db.resources[r])
    /\ \A c \in Procs : proc[c] # NULL =>
          proc[c].items \subseteq PublishedRepositories(proc[c].source)

(* Resources change by a refresh only.                                     *)
LEMMA WhoRefreshes ==
    ASSUME BaseInv, [Next]_clone, db'.resources # db.resources
    PROVE  /\ UNCHANGED remote
           /\ \E w \in WorkspaceIds, s \in Sources, items \in SUBSET Item, rs \in SUBSET ResourceIds :
              \E stored \in [rs -> items] :
                 /\ Refresh(w, s, items, stored)
                 /\ \/ OtherRefresh /\ items = PublishedRepositories(s)
                    \/ \E c \in Procs : /\ proc[c] # NULL /\ StoreRepositories(c)
                                        /\ s = proc[c].source /\ items = proc[c].items
  <1>1. ASSUME NEW c \in Procs, proc[c] # NULL, Step(c)
        PROVE  StoreRepositories(c)
    <2>1. CASE Register(c)
      BY <1>1, <2>1, RegisterTables
    <2>2. CASE ~Register(c)
      <3>1. db' # db
        OBVIOUS
      <3> QED BY Zenon, <1>1, <2>2, <3>1 DEF Step, Discover, PickRepositories, ResumePick, SelectPicked,
             SelectRepositories, GiveUp, Finish, RepositoryStep, AlreadyCloned, Adopt, FindAbsent,
             InHand, RefuseRepository, CloneBegins, CloneCompletes, CloneFails, InspectClone,
             FailRepository, RegisterFails
    <2> QED BY <2>1, <2>2
  <1>2. CASE Environment
    <2>1. ~AddWorkspaces
      BY WorkspaceTables
    <2>2. OtherRefresh
      BY <1>2, <2>1 DEF Environment, Crash, SwitchHost, EditHost, EditDirs
    <2>3. PICK w \in WorkspaceIds, rs \in SUBSET ResourceIds :
            \E stored \in [rs -> PublishedRepositories(host[w])] :
               Refresh(w, host[w], PublishedRepositories(host[w]), stored)
      BY <2>2 DEF OtherRefresh
    <2>4. host[w] \in Sources /\ PublishedRepositories(host[w]) \in SUBSET Item
      BY PublishedItems DEF BaseInv, TypeOK
    <2> QED BY <2>2, <2>3, <2>4 DEF OtherRefresh
  <1>3. ASSUME NEW c \in Procs, proc[c] # NULL, StoreRepositories(c)
        PROVE  \E rs \in SUBSET ResourceIds : \E stored \in [rs -> proc[c].items] :
                  Refresh(proc[c].workspace, proc[c].source, proc[c].items, stored)
    BY <1>3 DEF StoreRepositories
  <1>4. ASSUME NEW c \in Procs, proc[c] # NULL, StoreRepositories(c)
        PROVE  /\ proc[c].workspace \in WorkspaceIds /\ proc[c].source \in Sources
               /\ proc[c].items \in SUBSET Item /\ UNCHANGED remote
    BY <1>4 DEF BaseInv, TypeOK, Command, StoreRepositories
  <1>5. \/ Environment
        \/ \E c \in Procs : proc[c] # NULL /\ StoreRepositories(c)
    BY <1>1 DEF Next, clone, Resolve
  <1> QED BY <1>2, <1>3, <1>4, <1>5

LEMMA SettledRows ==
    ASSUME BaseInv, SettledInv, "renames" \notin Events, [Next]_clone
    PROVE  /\ UNCHANGED remote
           /\ \A r \in ResourceIds : HasResource(db', r) => RowSettled(db'.resources[r])
  <1>1. UNCHANGED remote
    <2>1. ASSUME NEW c \in Procs, proc[c] # NULL, Step(c)
          PROVE  UNCHANGED remote
      BY Zenon, <2>1 DEF Step, Discover, StoreRepositories, PickRepositories, ResumePick, SelectPicked,
             SelectRepositories, GiveUp, Finish, RepositoryStep, AlreadyCloned, Adopt, FindAbsent,
             InHand, RefuseRepository, CloneBegins, CloneCompletes, CloneFails, InspectClone,
             FailRepository, Register, RegisterFails
    <2> QED BY SMTT(30), <2>1 DEF Next, clone, Resolve, Environment, Crash, AddWorkspaces, OtherRefresh,
             SwitchHost, EditHost, EditDirs
  <1>2. CASE db'.resources = db.resources
    BY <1>1, <1>2 DEF SettledInv, HasResource
  <1>3. CASE db'.resources # db.resources
    <2>1. PICK w \in WorkspaceIds, s \in Sources, items \in SUBSET Item, rs \in SUBSET ResourceIds :
            \E stored \in [rs -> items] :
               /\ Refresh(w, s, items, stored)
               /\ \/ items = PublishedRepositories(s)
                  \/ \E c \in Procs : proc[c] # NULL /\ s = proc[c].source /\ items = proc[c].items
      BY <1>3, WhoRefreshes
    <2>2. PICK stored \in [rs -> items] : Refresh(w, s, items, stored)
      BY <2>1
    <2>3. items \subseteq PublishedRepositories(s)
      BY <2>1 DEF SettledInv
    <2>4. \A r \in rs : /\ stored[r].key = remote[s][stored[r].provider]
                        /\ stored[r].name = NameOf[stored[r].key]
      BY <2>2, <2>3 DEF PublishedRepositories
    <2>5. /\ \A r \in ResourceIds \ rs : db'.resources[r] = db.resources[r]
          /\ \A r \in rs : /\ db'.resources[r].source = s
                           /\ db'.resources[r].provider = stored[r].provider
                           /\ db'.resources[r].key = stored[r].key
                           /\ db'.resources[r].name = stored[r].name
      BY SMTT(30), <2>2, RefreshTables
    <2>6. \A r \in rs : RowSettled(db'.resources[r])
      BY <2>4, <2>5 DEF RowSettled
    <2> QED BY <1>1, <2>5, <2>6 DEF SettledInv, HasResource
  <1> QED BY <1>1, <1>2, <1>3

LEMMA SettledStep ==
    ASSUME BaseInv, SettledInv, "renames" \notin Events, [Next]_clone
    PROVE  SettledInv'
  <1>1. UNCHANGED remote
    BY SettledRows
  <1>2. ASSUME NEW c \in Procs, proc'[c] # NULL
        PROVE  proc'[c].items \subseteq PublishedRepositories(proc[c].source)'
    <2>1. CASE proc'[c] = proc[c]
      BY <1>1, <1>2, <2>1 DEF SettledInv, PublishedRepositories
    <2>2. CASE Prepares(c)
      BY <1>1, <2>2 DEF Prepares, PublishedRepositories
    <2>3. CASE Selects(c) \/ Takes(c) \/ Clones(c) \/ GoesOn(c)
      BY <2>3 DEF Selects, Takes, Clones, GoesOn, Goes
    <2> QED BY <1>2, <2>1, <2>2, <2>3, WhoSteps, StepKinds
  <1>3. (\A r \in ResourceIds : HasResource(db, r) => RowSettled(db.resources[r]))'
    BY <1>1, SettledRows DEF RowSettled
  <1> QED BY <1>2, <1>3 DEF SettledInv

LEMMA SettledInvInductive ==
    ASSUME "renames" \notin Events
    PROVE  Spec => []SettledInv
  <1>1. Init => SettledInv
    BY DEF Init, SettledInv, RegistryInit, EmptyDatabase, HasResource
  <1>2. BaseInv /\ SettledInv /\ [Next]_clone => SettledInv'
    BY SettledStep
  <1> QED BY <1>1, <1>2, BaseInvInductive, PTL DEF Spec

(* So a row stays as it is.                                                *)
LEMMA RowsStay ==
    ASSUME BaseInv, SettledInv, "renames" \notin Events, [Next]_clone,
           NEW r \in ResourceIds, HasResource(db, r)
    PROVE  /\ HasResource(db', r)
           /\ db'.resources[r].key = db.resources[r].key
           /\ db'.resources[r].name = db.resources[r].name
  <1>1. /\ HasResource(db', r)
        /\ db'.resources[r].source = db.resources[r].source
        /\ db'.resources[r].provider = db.resources[r].provider
    BY NextKeeps DEF Kept
  <1>2. RowSettled(db'.resources[r]) /\ RowSettled(db.resources[r])
    BY <1>1, SettledRows DEF SettledInv
  <1>3. db'.resources[r].key = db.resources[r].key
    BY <1>1, <1>2 DEF RowSettled
  <1> QED BY <1>1, <1>2, <1>3 DEF RowSettled

-----------------------------------------------------------------------------
(* The paths of the checkouts. *)

LEMMA ListsShrink ==
    ASSUME BaseInv, [Next]_clone, NEW c \in Procs, proc'[c] # NULL
    PROVE  \/ Prepares(c) \/ Selects(c)
           \/ /\ proc[c] # NULL /\ proc'[c].workspace = proc[c].workspace
              /\ proc'[c].todo \subseteq proc[c].todo
              /\ proc'[c].done \subseteq proc[c].done \cup proc[c].todo
  <1>1. CASE proc'[c] = proc[c]
    BY <1>1
  <1>2. \/ proc'[c] = proc[c] \/ Prepares(c)
        \/ proc[c] # NULL /\ (Selects(c) \/ Takes(c) \/ Clones(c) \/ GoesOn(c))
    BY WhoSteps, StepKinds
  <1>3. Takes(c) \/ Clones(c) \/ GoesOn(c) =>
           /\ proc'[c].workspace = proc[c].workspace
           /\ proc'[c].todo \subseteq proc[c].todo
           /\ proc'[c].done \subseteq proc[c].done \cup proc[c].todo
    BY DEF Takes, Clones, GoesOn, Goes
  <1> QED BY <1>1, <1>2, <1>3

(* Where a repository is cloned that has no location yet.                  *)
Home(w, r) == Destination[<<db.workspaces[w].dir, db.resources[r].name>>]

HomesInv ==
    /\ \A c \in Procs : proc[c] # NULL =>
          \A item \in proc[c].todo :
             /\ item.name = db.resources[item.resource].name
             /\ item.path \in {NULL, Home(proc[c].workspace, item.resource)}
    /\ \A l \in db.locations : l.path = Home(l.workspace, l.resource)

LEMMA HomeStays ==
    ASSUME BaseInv, SettledInv, "renames" \notin Events, [Next]_clone,
           NEW w \in WorkspaceIds, NEW r \in ResourceIds, HasWorkspace(db, w), HasResource(db, r)
    PROVE  Home(w, r)' = Home(w, r) /\ db'.resources[r].name = db.resources[r].name
  <1>1. db'.workspaces[w] = db.workspaces[w]
    BY NextKeeps DEF Kept
  <1>2. db'.resources[r].name = db.resources[r].name
    BY RowsStay
  <1> QED BY <1>1, <1>2 DEF Home

LEMMA LocationsRefer ==
    ASSUME BaseInv, NEW l \in db.locations
    PROVE  /\ l.workspace \in WorkspaceIds /\ l.resource \in ResourceIds /\ l.path \in Paths
           /\ l.type = CheckoutType
           /\ HasWorkspace(db, l.workspace) /\ HasResource(db, l.resource)
           /\ \A k \in db.locations :
                 k.workspace = l.workspace /\ k.resource = l.resource => k = l
  BY DEF BaseInv, RegistryInv, RegistryTypeOK, Database, LocationRow, TablesConsistent, Consistent,
     References, LocationsUnique, TablesOfRepositories

(* The path that is registered is the repository's home.                   *)
LEMMA PathInHand ==
    ASSUME BaseInv, HomesInv, NEW c \in Procs, proc[c] # NULL, Register(c)
    PROVE  proc[c].path = Home(proc[c].workspace, proc[c].item.resource)
  <1>1. /\ proc[c].item \in proc[c].todo
        /\ proc[c].path = IF proc[c].item.path # NULL THEN proc[c].item.path
                          ELSE Destination[<<proc[c].dir, proc[c].item.name>>]
        /\ db.workspaces[proc[c].workspace].dir = proc[c].dir
    BY DEF Register, At, BaseInv, CommandSound, InWork
  <1>2. /\ proc[c].item.name = db.resources[proc[c].item.resource].name
        /\ proc[c].item.path \in {NULL, Home(proc[c].workspace, proc[c].item.resource)}
    BY <1>1 DEF HomesInv
  <1> QED BY <1>1, <1>2 DEF Home

LEMMA HomesStep ==
    ASSUME BaseInv, SettledInv, HomesInv, "renames" \notin Events, [Next]_clone
    PROVE  HomesInv'
  <1>1. ASSUME NEW c \in Procs, proc'[c] # NULL, NEW item \in proc'[c].todo
        PROVE  /\ item.name = db'.resources[item.resource].name
               /\ item.path \in {NULL, Home(proc[c].workspace, item.resource)'}
    <2>1. CASE Prepares(c)
      BY <1>1, <2>1 DEF Prepares
    <2>2. CASE Selects(c)
      <3>1. /\ item \in Listed(proc[c].workspace) /\ UNCHANGED db /\ proc[c] # NULL
            /\ proc'[c].workspace = proc[c].workspace
        BY <1>1, <2>2 DEF Selects, Goes
      <3>2. /\ proc[c].workspace \in WorkspaceIds
        BY <3>1 DEF BaseInv, TypeOK, Command
      <3>3. /\ item.name = db.resources[item.resource].name
            /\ item.path = LocationPath(db, proc[c].workspace, item.resource, CheckoutType)
        BY <3>1, <3>2, ListedKnown
      <3>4. item.path # NULL =>
               \E l \in db.locations :
                  /\ l.workspace = proc[c].workspace /\ l.resource = item.resource
                  /\ l.path = item.path
        BY <3>3, LocationsRefer, PathOfLocation
      <3>5. item.path \in {NULL, Home(proc[c].workspace, item.resource)}
        BY <3>4 DEF HomesInv
      <3>6. Home(proc[c].workspace, item.resource)' = Home(proc[c].workspace, item.resource)
        BY <3>1 DEF Home
      <3> QED BY <3>1, <3>3, <3>5, <3>6
    <2>3. CASE /\ proc[c] # NULL /\ proc'[c].workspace = proc[c].workspace
               /\ proc'[c].todo \subseteq proc[c].todo
      <3>1. /\ proc[c].workspace \in WorkspaceIds /\ item.resource \in ResourceIds
            /\ HasWorkspace(db, proc[c].workspace) /\ HasResource(db, item.resource)
        BY ZenonT(60), <1>1, <2>3 DEF BaseInv, TypeOK, Command, Repository, CommandSound, RepositoryKnown
      <3>2. PICK w \in WorkspaceIds : w = proc[c].workspace
        BY <3>1
      <3>3. /\ Home(w, item.resource)' = Home(w, item.resource)
            /\ db'.resources[item.resource].name = db.resources[item.resource].name
        BY <3>1, <3>2, HomeStays
      <3>4. /\ item.name = db.resources[item.resource].name
            /\ item.path \in {NULL, Home(w, item.resource)}
        BY <1>1, <2>3, <3>2 DEF HomesInv
      <3>5. Home(proc[c].workspace, item.resource)' = Home(w, item.resource)'
        BY <2>3, <3>2 DEF Home
      <3> QED BY <3>3, <3>4, <3>5
    <2> QED BY <1>1, <2>1, <2>2, <2>3, ListsShrink
  <1>2. ASSUME NEW l \in db'.locations
        PROVE  l.path = Home(l.workspace, l.resource)'
    <2>1. CASE l \in db.locations
      BY <2>1, LocationsRefer, HomeStays DEF HomesInv
    <2>2. CASE l \notin db.locations
      <3>1. PICK c \in Procs : proc[c] # NULL /\ Register(c)
        BY <2>2, WhoRegisters
      <3>2. l = NewLocation(c)
        BY <2>2, <3>1, RegisterTables DEF OtherLocations
      <3>3. l.workspace = proc[c].workspace /\ l.resource = proc[c].item.resource
            /\ l.path = proc[c].path
        BY <3>2 DEF NewLocation
      <3>4. l.path = Home(l.workspace, l.resource)
        BY <3>1, <3>3, PathInHand
      <3>5. db'.resources = db.resources /\ db'.workspaces = db.workspaces
        BY <3>1, RegisterTables
      <3> QED BY <3>4, <3>5 DEF Home
    <2> QED BY <2>1, <2>2
  <1> QED BY <1>1, <1>2 DEF HomesInv

LEMMA HomesInvInductive ==
    ASSUME "renames" \notin Events
    PROVE  Spec => []HomesInv
  <1>1. Init => HomesInv
    BY DEF Init, HomesInv, RegistryInit, EmptyDatabase
  <1>2. BaseInv /\ SettledInv /\ HomesInv /\ [Next]_clone => HomesInv'
    BY HomesStep
  <1> QED BY <1>1, <1>2, BaseInvInductive, SettledInvInductive, PTL DEF Spec

LEMMA HomesRetained ==
    ASSUME BaseInv, SettledInv, HomesInv, "renames" \notin Events, [Next]_clone,
           NEW l \in db.locations, NEW k \in db'.locations,
           l.workspace = k.workspace, l.resource = k.resource
    PROVE  l.path = k.path
  <1>1. l.path = Home(l.workspace, l.resource)
    BY DEF HomesInv
  <1>2. k.path = Home(k.workspace, k.resource)'
    BY HomesStep DEF HomesInv
  <1>3. Home(l.workspace, l.resource)' = Home(l.workspace, l.resource)
    BY LocationsRefer, HomeStays
  <1> QED BY <1>1, <1>2, <1>3

(* With one command at a time, what it read of the locations still holds.  *)
TrackedInv ==
    \A c \in Procs : proc[c] # NULL =>
        \A item \in proc[c].todo :
            item.path = LocationPath(db, proc[c].workspace, item.resource, CheckoutType)

LEMMA TrackedStep ==
    ASSUME Alone, BaseInv, TrackedInv, [Next]_clone
    PROVE  TrackedInv'
  <1> SUFFICES ASSUME NEW c \in Procs, proc'[c] # NULL, NEW item \in proc'[c].todo
               PROVE  item.path = LocationPath(db', proc'[c].workspace, item.resource, CheckoutType)
    BY DEF TrackedInv
  <1>1. CASE Prepares(c)
    BY <1>1 DEF Prepares
  <1>2. CASE Selects(c)
    <2>1. /\ item \in Listed(proc[c].workspace) /\ UNCHANGED db /\ proc[c] # NULL
          /\ proc'[c].workspace = proc[c].workspace
      BY <1>2 DEF Selects, Goes
    <2>2. /\ proc[c].workspace \in WorkspaceIds
      BY <2>1 DEF BaseInv, TypeOK, Command
    <2> QED BY <2>1, <2>2, ListedKnown
  <1>3. CASE /\ proc[c] # NULL /\ proc'[c].workspace = proc[c].workspace
             /\ proc'[c].todo \subseteq proc[c].todo
    <2>1. item.path = LocationPath(db, proc[c].workspace, item.resource, CheckoutType)
      BY <1>3 DEF TrackedInv
    <2>2. CASE db'.locations = db.locations
      BY <1>3, <2>1, <2>2 DEF LocationPath
    <2>3. CASE db'.locations # db.locations
      <3>1. Register(c)
        BY <2>3, WhoRegisters DEF Alone
      <3>2. /\ proc[c].item \in proc[c].todo
            /\ proc'[c].todo = proc[c].todo \ {proc[c].item}
        <4>1. ~AlreadyCloned(c, proc[c].item) /\ ~RefuseRepository(c, proc[c].item)
          BY <3>1 DEF Register, At, AlreadyCloned, RefuseRepository
        <4>2. Moves(c, proc[c].item, {proc[c].item})
          BY <3>1 DEF Moves
        <4> QED BY <1>3, <4>1, <4>2, BaseMoves DEF Goes
      <3>3. item.resource # proc[c].item.resource
        BY <1>3, <3>2 DEF BaseInv, CommandSound
      <3>4. db'.locations =
                 OtherLocations(db, proc[c].workspace, proc[c].item.resource, CheckoutType)
                   \cup {NewLocation(c)}
        BY <1>3, <3>1, RegisterTables
      <3>5. {l \in db'.locations : /\ l.workspace = proc[c].workspace
                                   /\ l.resource = item.resource /\ l.type = CheckoutType}
              = {l \in db.locations : /\ l.workspace = proc[c].workspace
                                      /\ l.resource = item.resource /\ l.type = CheckoutType}
        BY <3>3, <3>4 DEF OtherLocations, NewLocation
      <3> QED BY <1>3, <2>1, <3>5 DEF LocationPath
    <2> QED BY <2>2, <2>3
  <1> QED BY <1>1, <1>2, <1>3, ListsShrink

LEMMA TrackedInvInductive ==
    ASSUME Alone
    PROVE  Spec => []TrackedInv
  <1>1. Init => TrackedInv
    BY DEF Init, TrackedInv
  <1>2. BaseInv /\ TrackedInv /\ [Next]_clone => TrackedInv'
    BY TrackedStep
  <1> QED BY <1>1, <1>2, BaseInvInductive, PTL DEF Spec

LEMMA TrackedRetained ==
    ASSUME BaseInv, TrackedInv, [Next]_clone,
           NEW l \in db.locations, NEW k \in db'.locations,
           l.workspace = k.workspace, l.resource = k.resource
    PROVE  l.path = k.path
  <1>1. CASE k \in db.locations
    BY <1>1, LocationsRefer
  <1>2. CASE k \notin db.locations
    <2>1. PICK c \in Procs : proc[c] # NULL /\ Register(c)
      BY <1>2, WhoRegisters
    <2>2. k = NewLocation(c)
      BY <1>2, <2>1, RegisterTables DEF OtherLocations
    <2>3. /\ k.workspace = proc[c].workspace /\ k.resource = proc[c].item.resource
          /\ k.path = proc[c].path
      BY <2>2 DEF NewLocation
    <2>4. /\ proc[c].item \in proc[c].todo
          /\ proc[c].item.path # NULL => proc[c].path = proc[c].item.path
      BY <2>1 DEF Register, At, BaseInv, CommandSound, InWork
    <2>5. proc[c].item.path = LocationPath(db, l.workspace, l.resource, CheckoutType)
      BY <2>1, <2>3, <2>4 DEF TrackedInv
    <2>6. LocationPath(db, l.workspace, l.resource, CheckoutType) = l.path
      BY LocationsRefer, PathOfLocation
    <2>7. l.path # NULL
      BY LocationsRefer, AbsenceAssumption
    <2> QED BY <2>3, <2>4, <2>5, <2>6, <2>7
  <1> QED BY <1>1, <1>2

(* A checkout keeps its registered path as long as one command runs at a   *)
(* time, or no repository is renamed: two commands that both find none     *)
(* registered would clone it under its old and its new name.               *)
THEOREM PathsRetained ==
    ASSUME Alone \/ "renames" \notin Events
    PROVE  Spec => CheckoutPathRetained
  <1>1. BaseInv /\ SettledInv /\ HomesInv /\ "renames" \notin Events /\ [Next]_clone =>
          \A l \in db.locations, k \in db'.locations :
             (l.workspace = k.workspace /\ l.resource = k.resource) => l.path = k.path
    BY HomesRetained
  <1>2. BaseInv /\ TrackedInv /\ [Next]_clone =>
          \A l \in db.locations, k \in db'.locations :
             (l.workspace = k.workspace /\ l.resource = k.resource) => l.path = k.path
    BY TrackedRetained
  <1>3. ASSUME "renames" \notin Events
        PROVE  Spec => CheckoutPathRetained
    BY <1>1, <1>3, BaseInvInductive, SettledInvInductive, HomesInvInductive, PTL
       DEF Spec, CheckoutPathRetained
  <1>4. ASSUME Alone
        PROVE  Spec => CheckoutPathRetained
    BY <1>2, <1>4, BaseInvInductive, TrackedInvInductive, PTL DEF Spec, CheckoutPathRetained
  <1> QED BY <1>3, <1>4

-----------------------------------------------------------------------------
(* What is reported. *)

(* No refresh gives a repository another key while a command works on it.  *)
KeysStay == "renames" \notin Events \/ (Alone /\ "refresh" \notin Events)

HasLocation(w, r, p) ==
    \E l \in db.locations : l.workspace = w /\ l.resource = r /\ l.path = p

ReportInv ==
    \A c \in Procs : proc[c] # NULL =>
        /\ \A item \in proc[c].todo \cup proc[c].done :
              item.key = db.resources[item.resource].key
        /\ \A item \in proc[c].todo : item.path # NULL =>
              HasLocation(proc[c].workspace, item.resource, item.path)
        /\ \A item \in proc[c].done : \E p \in Paths :
              /\ HasLocation(proc[c].workspace, item.resource, p)
              /\ Valid(p, item)
              /\ Alone /\ At(c, "cloning") => proc[c].path # p

(* A registration that keeps the path of a location keeps the location.    *)
LEMMA LocationsStay ==
    ASSUME BaseInv, [Next]_clone,
           \A l \in db.locations, k \in db'.locations :
              (l.workspace = k.workspace /\ l.resource = k.resource) => l.path = k.path,
           NEW w, NEW r, NEW p, HasLocation(w, r, p)
    PROVE  HasLocation(w, r, p)'
  <1>1. PICK l \in db.locations : l.workspace = w /\ l.resource = r /\ l.path = p
    BY DEF HasLocation
  <1>2. CASE l \in db'.locations
    BY <1>1, <1>2 DEF HasLocation
  <1>3. CASE l \notin db'.locations
    <2>1. PICK c \in Procs : proc[c] # NULL /\ Register(c)
      BY <1>3, WhoRegisters
    <2>2. /\ NewLocation(c) \in db'.locations
          /\ NewLocation(c).workspace = w /\ NewLocation(c).resource = r
      BY <1>1, <1>3, <2>1, RegisterTables DEF OtherLocations, NewLocation
    <2> QED BY <1>1, <2>2 DEF HasLocation
  <1> QED BY <1>2, <1>3

LEMMA ReportStep ==
    ASSUME CheckoutsStay, BaseInv, InspectedInv, ReportInv, [Next]_clone,
           \A l \in db.locations, k \in db'.locations :
              (l.workspace = k.workspace /\ l.resource = k.resource) => l.path = k.path,
           \A c \in Procs : proc[c] # NULL =>
              \A item \in proc[c].todo \cup proc[c].done :
                 db'.resources[item.resource].key = db.resources[item.resource].key
    PROVE  ReportInv'
  <1> SUFFICES ASSUME NEW c \in Procs, proc'[c] # NULL
               PROVE  /\ \A item \in proc'[c].todo \cup proc'[c].done :
                            item.key = db'.resources[item.resource].key
                      /\ \A item \in proc'[c].todo : item.path # NULL =>
                            HasLocation(proc[c].workspace, item.resource, item.path)'
                      /\ \A item \in proc'[c].done : \E p \in Paths :
                            /\ HasLocation(proc[c].workspace, item.resource, p)'
                            /\ Valid(p, item)'
                            /\ Alone /\ At(c, "cloning")' => proc'[c].path # p
    BY DEF ReportInv
  <1>1. CASE Prepares(c)
    BY <1>1 DEF Prepares
  <1>2. CASE Selects(c)
    <2>1. /\ proc'[c].todo \subseteq Listed(proc[c].workspace) /\ proc'[c].done = {}
          /\ UNCHANGED db /\ proc[c] # NULL /\ proc'[c].workspace = proc[c].workspace
      BY <1>2 DEF Selects, Goes
    <2>2. proc[c].workspace \in WorkspaceIds
      BY <2>1 DEF BaseInv, TypeOK, Command
    <2>3. ASSUME NEW item \in proc'[c].todo
          PROVE  /\ item.key = db.resources[item.resource].key
                 /\ item.path # NULL =>
                       HasLocation(proc[c].workspace, item.resource, item.path)
      <3>1. /\ item.key = db.resources[item.resource].key
            /\ item.path = LocationPath(db, proc[c].workspace, item.resource, CheckoutType)
        BY <2>1, <2>2, <2>3, ListedKnown
      <3> QED BY <3>1, LocationsRefer, PathOfLocation DEF HasLocation
    <2> QED BY <2>1, <2>3 DEF HasLocation
  <1>3. CASE /\ proc[c] # NULL /\ proc'[c].workspace = proc[c].workspace
             /\ proc'[c].todo \subseteq proc[c].todo
             /\ proc'[c].done \subseteq proc[c].done \cup proc[c].todo
             /\ ~Prepares(c) /\ ~Selects(c)
    <2>1. PICK w \in WorkspaceIds : w = proc[c].workspace
      BY <1>3 DEF BaseInv, TypeOK, Command
    <2>2. \A r, p : HasLocation(w, r, p)' => HasLocation(proc[c].workspace, r, p)'
      BY <1>3, <2>1 DEF HasLocation
    <2>3. \A item \in proc'[c].todo \cup proc'[c].done : item.key = db'.resources[item.resource].key
      BY <1>3 DEF ReportInv
    <2>4. ASSUME NEW item \in proc'[c].todo, item.path # NULL
          PROVE  HasLocation(proc[c].workspace, item.resource, item.path)'
      <3>1. HasLocation(w, item.resource, item.path)
        BY <1>3, <2>1, <2>4 DEF ReportInv
      <3> QED BY <2>2, <3>1, LocationsStay
    <2>5. ASSUME NEW item \in proc[c].done
          PROVE  \E p \in Paths : /\ HasLocation(proc[c].workspace, item.resource, p)'
                                  /\ Valid(p, item)'
                                  /\ Alone /\ At(c, "cloning")' => proc'[c].path # p
      <3>1. PICK p \in Paths : /\ HasLocation(w, item.resource, p)
                               /\ Valid(p, item)
                               /\ Alone /\ At(c, "cloning") => proc[c].path # p
        BY <1>3, <2>1, <2>5 DEF ReportInv
      <3>2. HasLocation(w, item.resource, p)'
        BY <3>1, LocationsStay
      <3>3. \A d \in Procs : CloneFails(d) => proc[d].path # p
        BY <3>1 DEF CheckoutsStay, Alone, CloneFails
      <3>4. Valid(p, item)'
        BY <1>3, <3>1, <3>3, ValidStays
      <3>5. ASSUME Alone, At(c, "cloning")'
            PROVE  proc'[c].path # p
        <4>1. CASE proc'[c] = proc[c]
          BY <3>1, <3>5, <4>1 DEF At
        <4>2. CASE Clones(c)
          <5>1. dirs[proc[c].path] = NULL /\ proc'[c].path = proc[c].path
            BY <3>5, <4>2 DEF Clones, Goes, At
          <5> QED BY <3>1, <5>1 DEF Valid, IsCheckout
        <4>3. ~Takes(c) /\ ~GoesOn(c)
          BY <3>5 DEF Takes, GoesOn, Goes, At
        <4> QED BY <1>3, <4>1, <4>2, <4>3, WhoSteps, StepKinds
      <3> QED BY <2>2, <3>2, <3>4, <3>5
    <2>6. ASSUME NEW item \in proc'[c].done, item \notin proc[c].done
          PROVE  \E p \in Paths : /\ HasLocation(proc[c].workspace, item.resource, p)'
                                  /\ Valid(p, item)'
                                  /\ Alone /\ At(c, "cloning")' => proc'[c].path # p
      <3>1. GoesOn(c)
        BY <1>3, <2>6, WhoSteps, StepKinds DEF Takes, Clones, Goes
      <3>2. PICK i \in proc[c].todo : \E done \in SUBSET {i} :
               /\ Moves(c, i, done)
               /\ Goes(c, "listed", {}, proc[c].todo \ {i}, NULL, NULL, proc[c].done \cup done)
        BY <3>1 DEF GoesOn
      <3>3. /\ proc'[c].pc = "listed" /\ item = i
            /\ AlreadyCloned(c, i) \/ (Register(c) /\ i = proc[c].item)
        BY <2>6, <3>2 DEF Goes, Moves
      <3>4. ~At(c, "cloning")'
        BY <3>3 DEF At
      <3>5. CASE AlreadyCloned(c, item)
        <4>1. State(item) = "cloned" /\ UNCHANGED dirs
          BY <3>5 DEF AlreadyCloned
        <4>2. item.path # NULL /\ Valid(item.path, item)
          BY <4>1 DEF State
        <4>3. item.path \in Paths
          BY <1>3, <3>2, <3>3, <4>2 DEF BaseInv, TypeOK, Command, Repository
        <4>4. HasLocation(w, item.resource, item.path)
          BY <1>3, <2>1, <3>2, <3>3, <4>2 DEF ReportInv
        <4>5. HasLocation(w, item.resource, item.path)'
          BY <4>4, LocationsStay
        <4>6. Valid(item.path, item)'
          BY <4>1, <4>2 DEF Valid, IsCheckout
        <4> QED BY <2>2, <3>4, <4>3, <4>5, <4>6
      <3>6. CASE Register(c) /\ item = proc[c].item
        <4>1. PICK p \in Paths : p = proc[c].path /\ Valid(p, item)
          BY <3>6, ItemPaths DEF Register, InspectedInv
        <4>2. Valid(p, item)'
          BY <3>6, <4>1 DEF Valid, IsCheckout, Register
        <4>3. NewLocation(c) \in db'.locations
          BY <1>3, <3>6, RegisterTables
        <4>4. HasLocation(w, item.resource, p)'
          BY <2>1, <3>6, <4>1, <4>3 DEF HasLocation, NewLocation
        <4> QED BY <2>2, <3>4, <4>2, <4>4
      <3> QED BY <3>3, <3>5, <3>6
    <2> QED BY <2>3, <2>4, <2>5, <2>6
  <1> QED BY <1>1, <1>2, <1>3, ListsShrink

LEMMA KeysStayAlone ==
    ASSUME Alone, "refresh" \notin Events, BaseInv, [Next]_clone,
           NEW c \in Procs, proc[c] # NULL, NEW item \in proc[c].todo \cup proc[c].done
    PROVE  db'.resources[item.resource].key = db.resources[item.resource].key
  <1>1. CASE db'.resources = db.resources
    BY <1>1
  <1>2. CASE db'.resources # db.resources
    <2>1. StoreRepositories(c)
      BY <1>2, WhoRefreshes DEF OtherRefresh, Alone
    <2>2. proc[c].todo = {} /\ proc[c].done = {}
      BY <2>1 DEF StoreRepositories, At, BaseInv, CommandSound, Preparing
    <2> QED BY <2>2
  <1> QED BY <1>1, <1>2

LEMMA KeysStayUnrenamed ==
    ASSUME "renames" \notin Events, BaseInv, SettledInv, [Next]_clone,
           NEW c \in Procs, proc[c] # NULL, NEW item \in proc[c].todo \cup proc[c].done
    PROVE  db'.resources[item.resource].key = db.resources[item.resource].key
  <1>1. proc[c] \in Command /\ CommandSound(c)
    BY DEF BaseInv, TypeOK
  <1>2. item.resource \in ResourceIds
    BY <1>1 DEF Command, Repository
  <1>3. HasResource(db, item.resource)
    BY <1>1 DEF CommandSound, RepositoryKnown
  <1> QED BY <1>2, <1>3, RowsStay

(* What was reported is registered at a path that holds its checkout; one  *)
(* command does not touch it with its further clones, and several do not   *)
(* unless a clone fails.                                                   *)
THEOREM ReportInvInductive ==
    ASSUME CheckoutsStay, KeysStay
    PROVE  Spec => []ReportInv
  <1>1. Init => ReportInv
    BY DEF Init, ReportInv
  <1>2. CASE "renames" \notin Events
    <2>1. BaseInv /\ SettledInv /\ HomesInv /\ InspectedInv /\ ReportInv /\ [Next]_clone
            => ReportInv'
      <3> SUFFICES ASSUME BaseInv, SettledInv, HomesInv, InspectedInv, ReportInv, [Next]_clone
                   PROVE  ReportInv'
        OBVIOUS
      <3>1. \A l \in db.locations, k \in db'.locations :
               (l.workspace = k.workspace /\ l.resource = k.resource) => l.path = k.path
        BY <1>2, HomesRetained
      <3>2. \A c \in Procs : proc[c] # NULL =>
               \A item \in proc[c].todo \cup proc[c].done :
                  db'.resources[item.resource].key = db.resources[item.resource].key
        BY <1>2, KeysStayUnrenamed
      <3> QED BY <3>1, <3>2, ReportStep
    <2> QED BY <1>1, <1>2, <2>1, BaseInvInductive, SettledInvInductive, HomesInvInductive,
               InspectedInvInductive, PTL DEF Spec
  <1>3. CASE Alone /\ "refresh" \notin Events
    <2>1. BaseInv /\ TrackedInv /\ InspectedInv /\ ReportInv /\ [Next]_clone => ReportInv'
      <3> SUFFICES ASSUME BaseInv, TrackedInv, InspectedInv, ReportInv, [Next]_clone
                   PROVE  ReportInv'
        OBVIOUS
      <3>1. \A l \in db.locations, k \in db'.locations :
               (l.workspace = k.workspace /\ l.resource = k.resource) => l.path = k.path
        BY TrackedRetained
      <3>2. \A c \in Procs : proc[c] # NULL =>
               \A item \in proc[c].todo \cup proc[c].done :
                  db'.resources[item.resource].key = db.resources[item.resource].key
        BY <1>3, KeysStayAlone
      <3> QED BY <3>1, <3>2, ReportStep
    <2> QED BY <1>1, <1>3, <2>1, BaseInvInductive, TrackedInvInductive, InspectedInvInductive,
               PTL DEF Spec
  <1> QED BY <1>2, <1>3 DEF KeysStay

LEMMA ReportImplies == BaseInv /\ ReportInv => ReportedClonesRegistered
  <1> SUFFICES ASSUME BaseInv, ReportInv, NEW c \in Procs, proc[c] # NULL,
                      NEW item \in proc[c].done
               PROVE  \E shown \in Listed(proc[c].workspace) :
                         shown.resource = item.resource /\ State(shown) = "cloned"
    BY DEF BaseInv, ReportedClonesRegistered
  <1> DEFINE w == proc[c].workspace
             r == item.resource
  <1>1. /\ w \in WorkspaceIds /\ r \in ResourceIds /\ HasResource(db, r)
        /\ item.source = db.resources[r].source /\ Member(w, r) \in db.memberships
        /\ item.key = db.resources[r].key
    BY ZenonT(60) DEF BaseInv, TypeOK, Command, Repository, CommandSound, RepositoryKnown, ReportInv
  <1>2. PICK p \in Paths : HasLocation(w, r, p) /\ Valid(p, item)
    BY DEF ReportInv
  <1>3. db.resources[r].type = RepositoryType /\ db.resources[r].source # NULL
    BY <1>1 DEF BaseInv, TablesOfRepositories
  <1> HIDE DEF w, r
  <1>4. r \in WorkspaceResources(db, w, RepositoryType)
    BY <1>1, <1>3 DEF WorkspaceResources
  <1> DEFINE shown == [resource |-> r, source |-> db.resources[r].source,
                       key |-> db.resources[r].key, name |-> db.resources[r].name,
                       path |-> LocationPath(db, w, r, CheckoutType)]
  <1>5. shown \in Listed(w)
    BY <1>3, <1>4 DEF Listed
  <1>6. LocationPath(db, w, r, CheckoutType) = p
    BY <1>2, LocationsRefer, PathOfLocation DEF HasLocation
  <1>7. /\ shown.resource = r /\ shown.source = item.source /\ shown.key = item.key
        /\ shown.path = p
    BY <1>1, <1>6
  <1> HIDE DEF shown
  <1>8. Valid(p, shown)
    BY <1>2, <1>7 DEF Valid
  <1>9. p # NULL /\ dirs[p] # NULL
    BY <1>8, AbsenceAssumption DEF Valid, IsCheckout
  <1>10. State(shown) = "cloned"
    BY <1>7, <1>8, <1>9 DEF State
  <1> QED BY <1>5, <1>7, <1>10 DEF w, r

(* A repository is reported without an error only when repo list, run at   *)
(* any later time of the command, shows it as cloned: for one command at a *)
(* time even when clones fail, and for several as long as none fails and   *)
(* no repository is renamed.                                               *)
THEOREM ReportsHold ==
    ASSUME CheckoutsStay, KeysStay
    PROVE  Spec => []ReportedClonesRegistered
  <1>1. BaseInv /\ ReportInv => ReportedClonesRegistered
    BY ReportImplies
  <1> QED BY <1>1, BaseInvInductive, ReportInvInductive, PTL

-----------------------------------------------------------------------------
(* What is selected. *)

LEMMA ListedAreDistinct ==
    ASSUME IsFiniteSet(ResourceIds), NEW w
    PROVE  /\ IsFiniteSet(Listed(w))
           /\ \A a, b \in Listed(w) : a.resource = b.resource => a = b
  <1> DEFINE R == {r \in WorkspaceResources(db, w, RepositoryType) : db.resources[r].source # NULL}
             row == [r \in R |->
                       [resource |-> r, source |-> db.resources[r].source,
                        key |-> db.resources[r].key, name |-> db.resources[r].name,
                        path |-> LocationPath(db, w, r, CheckoutType)]]
             listed == {row[r] : r \in R}
  <1>1. Listed(w) = listed
    BY DEF Listed
  <1>2. IsFiniteSet(R)
    BY FS_Subset DEF WorkspaceResources
  <1>3. IsFiniteSet(listed)
    <2> HIDE DEF row, R
    <2> QED BY <1>2, RangeIsFinite
  <1>4. \A a, b \in Listed(w) : a.resource = b.resource => a = b
    <2>1. \A r \in R : row[r].resource = r
      OBVIOUS
    <2> HIDE DEF row
    <2> QED BY <1>1, <2>1
  <1> QED BY <1>1, <1>3, <1>4

(* For however many repositories of however many hosts a selection is what its    *)
(* user named (repository.Select).                                               *)
THEOREM SelectionsExact ==
    ASSUME IsFiniteSet(ResourceIds)
    PROVE  Spec => []SelectionExact
  <1>1. SelectionExact
    <2> SUFFICES ASSUME NEW c \in Procs, NEW rows \in Listings(proc[c].workspace),
                        NEW selectors \in Selectors
                 PROVE  IsSelection(rows, selectors, "repository")
      BY DEF SelectionExact
    <2>1. /\ rows \in SetToSeqs(Listed(proc[c].workspace))
          /\ selectors \in SeqOf(ExternalKeys \cup Names, MaxSelectors) /\ MaxSelectors \in Nat
      BY CloneAssumption DEF Listings, Selectors
    <2> QED BY <2>1, ListedAreDistinct, EveryListingExact
  <1> QED BY <1>1, PTL

-----------------------------------------------------------------------------
(* What a dialogue answers. *)

Mention(chosen, n) == IF Contains(chosen, n) THEN chosen ELSE Append(chosen, n)

LEMMA FirstMentionsIsFold ==
    ASSUME NEW numbers
    PROVE  LET fold == CHOOSE fold : fold =
                          [s \in SUBSET (DOMAIN numbers) |->
                             IF s = {} THEN <<>>
                             ELSE Mention(fold[s \ {Max(s)}], numbers[Max(s)])]
           IN  FirstMentions(numbers) = fold[DOMAIN numbers]
  BY Zenon DEF FirstMentions, FoldLeft, MapThenFoldSet, Mention

LEMMA MentionAdds ==
    ASSUME NEW R, NEW chosen \in Seq(R), NEW value \in R
    PROVE  Mention(chosen, value) = AddNew(chosen, value) /\ AddNew(chosen, value) \in Seq(R)
  BY AppendProperties DEF Mention, AddNew, Contains

MentionsIn(steps, n, numbers) ==
    /\ steps[0] = <<>>
    /\ steps[n] = FirstMentions(numbers)
    /\ \A k \in 1 .. n : steps[k] = AddNew(steps[k - 1], numbers[k])

LEMMA MentionSteps ==
    ASSUME NEW n \in Nat, NEW numbers, DOMAIN numbers = 1 .. n
    PROVE  \E steps : MentionsIn(steps, n, numbers)
  <1> DEFINE R == {numbers[k] : k \in 1 .. n}
             A == Seq(R)
             step == [k \in 1 .. n |-> [chosen \in A |-> AddNew(chosen, numbers[k])]]
             MentionsBy(fold) == fold = [s \in SUBSET (1 .. n) |->
                                IF s = {} THEN <<>> ELSE Mention(fold[s \ {Max(s)}], numbers[Max(s)])]
  <1>1. <<>> \in A /\ step \in [1 .. n -> [A -> A]]
    <2>1. ASSUME NEW k \in 1 .. n, NEW chosen \in A PROVE AddNew(chosen, numbers[k]) \in A
      <3>1. numbers[k] \in R
        OBVIOUS
      <3> HIDE DEF R
      <3> QED BY <3>1, MentionAdds
    <2> QED BY <2>1
  <1>2. PICK fold \in [SUBSET (1 .. n) -> A] : IsFold(fold, n, <<>>, step)
    <2> HIDE DEF A, step
    <2> QED BY <1>1, FoldExists
  <1>3. MentionsBy(fold)
    <2>1. ASSUME NEW s \in SUBSET (1 .. n), s # {}
          PROVE  fold[s] = Mention(fold[s \ {Max(s)}], numbers[Max(s)])
      <3>1. Max(s) \in 1 .. n
        <4>1. s \in SUBSET (0 .. n)
          OBVIOUS
        <4> QED BY <2>1, <4>1, IsMax
      <3>2. fold[s \ {Max(s)}] \in A
        OBVIOUS
      <3>3. step[Max(s)][fold[s \ {Max(s)}]] = AddNew(fold[s \ {Max(s)}], numbers[Max(s)])
        BY <3>1, <3>2
      <3>4. numbers[Max(s)] \in R
        BY <3>1
      <3> HIDE DEF R
      <3>5. Mention(fold[s \ {Max(s)}], numbers[Max(s)])
              = AddNew(fold[s \ {Max(s)}], numbers[Max(s)])
        BY <3>2, <3>4, MentionAdds
      <3> QED BY <1>2, <2>1, <3>3, <3>5 DEF IsFold
    <2>2. fold[{}] = <<>>
      BY <1>2 DEF IsFold
    <2> QED BY <2>1, <2>2
  <1> DEFINE chosen == CHOOSE f : MentionsBy(f)
             steps == [k \in 0 .. n |-> chosen[1 .. k]]
  <1>4. MentionsBy(chosen)
    BY <1>3
  <1>5. FirstMentions(numbers) = chosen[1 .. n]
    BY FirstMentionsIsFold
  <1> HIDE DEF chosen
  <1>6. \A s \in SUBSET (1 .. n) :
            chosen[s] = IF s = {} THEN <<>> ELSE Mention(chosen[s \ {Max(s)}], numbers[Max(s)])
    <2> DEFINE right == [s \in SUBSET (1 .. n) |->
                           IF s = {} THEN <<>> ELSE Mention(chosen[s \ {Max(s)}], numbers[Max(s)])]
    <2>1. chosen = right
      BY <1>4
    <2>2. \A s \in SUBSET (1 .. n) : right[s] =
              IF s = {} THEN <<>> ELSE Mention(chosen[s \ {Max(s)}], numbers[Max(s)])
      OBVIOUS
    <2> HIDE DEF right
    <2> QED BY <2>1, <2>2
  <1>7. steps[0] = <<>>
    <2>1. 1 .. 0 = {} /\ {} \in SUBSET (1 .. n) /\ 0 \in 0 .. n
      OBVIOUS
    <2>2. chosen[{}] = <<>>
      BY <1>6, <2>1
    <2> QED BY <2>1, <2>2
  <1>8. ASSUME NEW k \in 1 .. n PROVE steps[k] = Mention(steps[k - 1], numbers[k])
    <2>1. k \in Nat \ {0} /\ 1 .. k \in SUBSET (1 .. n) /\ k - 1 \in 0 .. n
      OBVIOUS
    <2>2. /\ Max(1 .. k) = k /\ 1 .. k # {}
          /\ (1 .. k) \ {k} = 1 .. (k - 1)
      BY <2>1, FoldPrefix
    <2>3. chosen[1 .. k] = Mention(chosen[1 .. (k - 1)], numbers[k])
      BY <1>6, <2>1, <2>2
    <2> QED BY <2>1, <2>3
  <1>9. steps[n] = FirstMentions(numbers)
    BY <1>5
  <1> HIDE DEF steps
  <1>10. \A k \in 0 .. n : k \in {l \in Nat : steps[l] \in A}
    <2>1. ASSUME NEW k \in 0 .. n - 1, steps[k] \in A PROVE steps[k + 1] \in A
      <3>1. k + 1 \in 1 .. n /\ (k + 1) - 1 = k /\ numbers[k + 1] \in R
        OBVIOUS
      <3>2. steps[k + 1] = Mention(steps[k], numbers[k + 1])
        BY <1>8, <3>1
      <3> HIDE DEF R
      <3> QED BY <2>1, <3>1, <3>2, MentionAdds
    <2>2. \A k \in 0 .. n - 1 : k \in {l \in Nat : steps[l] \in A}
                                 => k + 1 \in {l \in Nat : steps[l] \in A}
      BY <2>1
    <2>3. 0 \in {l \in Nat : steps[l] \in A}
      BY <1>1, <1>7
    <2> QED BY <2>2, <2>3, BoundedInduction
  <1>11. ASSUME NEW k \in 1 .. n PROVE steps[k] = AddNew(steps[k - 1], numbers[k])
    <2>1. k - 1 \in 0 .. n /\ numbers[k] \in R
      OBVIOUS
    <2>2. steps[k - 1] \in A
      BY <1>10, <2>1
    <2> HIDE DEF R
    <2> QED BY <1>8, <2>1, <2>2, MentionAdds
  <1> QED BY <1>7, <1>9, <1>11 DEF MentionsIn

LEMMA MentionsAnswer ==
    ASSUME NEW n \in Nat, NEW R, NEW numbers \in [1 .. n -> R]
    PROVE  /\ FirstMentions(numbers) \in Seq(R)
           /\ \E answer : Answers(answer, FirstMentions(numbers), numbers, n)
  <1>1. PICK steps : MentionsIn(steps, n, numbers)
    BY MentionSteps
  <1>2. steps[n] \in Seq(R) /\ \E answer : Answers(answer, steps[n], numbers, n)
    BY <1>1, EachAnswered DEF MentionsIn
  <1> QED BY <1>1, <1>2 DEF MentionsIn

(* However many numbers are typed, the answer is the options they name,    *)
(* each once and in the order in which they were first named               *)
(* (picker.parseSelection).                                                *)
THEOREM EveryPickExact ==
    ASSUME NEW n \in Nat, NEW R, NEW numbers \in [1 .. n -> R]
    PROVE  /\ FirstMentions(numbers) \in Seq(R)
           /\ IsPick(FirstMentions(numbers), numbers)
           /\ n = 1 => Len(FirstMentions(numbers)) = 1
  <1> DEFINE chosen == FirstMentions(numbers)
             times(i) == {k \in DOMAIN numbers : numbers[k] = chosen[i]}
  <1>1. /\ chosen \in Seq(R)
        /\ \E answer : Answers(answer, chosen, numbers, n)
    BY MentionsAnswer
  <1>2. PICK answer : Answers(answer, chosen, numbers, n)
    BY <1>1
  <1>3. DOMAIN chosen = 1 .. Len(chosen) /\ Len(chosen) \in Nat
    BY <1>1
  <1> HIDE DEF chosen
  <1>4. ToSet(chosen) = ToSet(numbers)
    <2>1. ASSUME NEW i \in DOMAIN chosen PROVE \E k \in 1 .. n : chosen[i] = numbers[k]
      BY <1>2 DEF Answers
    <2>2. ASSUME NEW k \in 1 .. n PROVE \E i \in DOMAIN chosen : chosen[i] = numbers[k]
      BY <1>2 DEF Answers
    <2> QED BY SMTT(30), <2>1, <2>2 DEF ToSet
  <1>5. ASSUME NEW i \in DOMAIN chosen, NEW k \in 1 .. n
        PROVE  numbers[k] = chosen[i] <=> answer[k] = i
    <2>1. answer[k] \in 1 .. Len(chosen) /\ chosen[answer[k]] = numbers[k]
      BY <1>2, <1>3 DEF Answers
    <2>2. ASSUME numbers[k] = chosen[i] PROVE answer[k] = i
      <3>1. ~ (answer[k] < i) /\ ~ (i < answer[k])
        BY <1>2, <1>3, <2>1, <2>2 DEF Answers
      <3> QED BY <1>3, <2>1, <3>1
    <2> QED BY <2>1, <2>2
  <1>6. ASSUME NEW i \in DOMAIN chosen, NEW j \in DOMAIN chosen, i < j
        PROVE  Leftmost(times(i)) < Leftmost(times(j))
    <2>1. PICK k \in 1 .. n : answer[k] = i /\ \A l \in 1 .. n : answer[l] = j => k < l
      BY <1>2, <1>6 DEF Answers
    <2>2. /\ times(i) \in SUBSET Nat /\ k \in times(i)
          /\ times(j) \in SUBSET Nat
          /\ \A l \in times(j) : k < l
      BY <1>5, <2>1
    <2>3. times(j) # {}
      <3>1. PICK l \in 1 .. n : answer[l] = j
        BY <1>2 DEF Answers
      <3> QED BY <1>5, <3>1
    <2> HIDE DEF times
    <2>4. Leftmost(times(i)) <= k /\ Leftmost(times(j)) \in times(j) /\ Leftmost(times(i)) \in times(i)
      BY <2>2, <2>3, IsLeftmost
    <2>5. Leftmost(times(i)) \in Nat /\ Leftmost(times(j)) \in Nat
      BY <2>2, <2>4
    <2> QED BY <2>2, <2>4, <2>5
  <1>7. IsPick(chosen, numbers)
    BY <1>4, <1>6 DEF IsPick
  <1>8. ASSUME n = 1 PROVE Len(chosen) = 1
    <2>1. answer[1] \in 1 .. Len(chosen) /\ \A i \in 1 .. Len(chosen) : answer[1] = i
      BY <1>2, <1>3, <1>8 DEF Answers
    <2>2. Len(chosen) >= 1
      BY <1>3, <2>1
    <2>3. 1 \in 1 .. Len(chosen) /\ Len(chosen) \in 1 .. Len(chosen)
      BY <1>3, <2>2
    <2> QED BY <1>3, <2>1, <2>3
  <1> QED BY <1>1, <1>7, <1>8 DEF chosen

(* A prompt reads up to the first acceptable line and no further.          *)
ReadsTo(i, lines, good, n) ==
    LET rest == SubSeq(lines, i + 1, Len(lines))
    IN  /\ i \in good /\ i \in 1 .. n
        /\ Len(lines) - Len(rest) = i
        /\ lines = SubSeq(lines, 1, i) \o rest
        /\ \A j \in 1 .. i - 1 : j \in 1 .. n /\ j \notin good
        /\ \A j \in 1 .. i - 1 : SubSeq(lines, 1, i - 1)[j] = lines[j]
        /\ DOMAIN SubSeq(lines, 1, i - 1) = 1 .. i - 1

LEMMA LinesRead ==
    ASSUME NEW n \in Nat, NEW T, NEW lines \in [1 .. n -> T], NEW good \in SUBSET (1 .. n),
           good # {}
    PROVE  ReadsTo(Leftmost(good), lines, good, n)
  <1> DEFINE i == Leftmost(good)
             rest == SubSeq(lines, i + 1, Len(lines))
  <1>1. i \in good /\ \A k \in good : i <= k
    <2>1. good \in SUBSET Nat
      OBVIOUS
    <2> QED BY <2>1, IsLeftmost
  <1> HIDE DEF i
  <1>2. i \in 1 .. n
    BY <1>1
  <1>3. lines \in Seq(T) /\ Len(lines) = n
    OBVIOUS
  <1>4. rest \in Seq(T) /\ Len(rest) = n - i /\ \A k \in 1 .. n - i : rest[k] = lines[i + k]
    BY <1>2, <1>3
  <1>5. /\ SubSeq(lines, 1, i) \in Seq(T) /\ Len(SubSeq(lines, 1, i)) = i
        /\ \A k \in 1 .. i : SubSeq(lines, 1, i)[k] = lines[k]
    BY <1>2, <1>3
  <1>6. lines = SubSeq(lines, 1, i) \o rest
    <2> HIDE DEF rest
    <2>1. /\ SubSeq(lines, 1, i) \o rest \in Seq(T)
          /\ Len(SubSeq(lines, 1, i) \o rest) = n
      BY <1>2, <1>4, <1>5, ConcatProperties
    <2>2. ASSUME NEW k \in 1 .. n PROVE (SubSeq(lines, 1, i) \o rest)[k] = lines[k]
      <3>1. CASE k <= i
        BY <1>2, <1>4, <1>5, <3>1, ConcatProperties
      <3>2. CASE k > i
        <4>1. k - i \in 1 .. n - i /\ i + (k - i) = k
          BY <1>2, <3>2
        <4>2. (SubSeq(lines, 1, i) \o rest)[k] = rest[k - i]
          BY <1>2, <1>4, <1>5, <3>2, ConcatProperties
        <4> QED BY <1>4, <4>1, <4>2
      <3>3. k <= i \/ k > i
        BY <1>2
      <3> QED BY <3>1, <3>2, <3>3
    <2> QED BY <1>3, <2>1, <2>2, SeqEqual
  <1>7. /\ \A j \in 1 .. i - 1 : j \in 1 .. n /\ j \notin good
        /\ \A j \in 1 .. i - 1 : SubSeq(lines, 1, i - 1)[j] = lines[j]
        /\ DOMAIN SubSeq(lines, 1, i - 1) = 1 .. i - 1
    BY <1>1, <1>2, <1>3
  <1>8. Len(lines) - Len(rest) = i
    BY <1>2, <1>3, <1>4
  <1> QED BY <1>1, <1>2, <1>3, <1>6, <1>7, <1>8 DEF i, ReadsTo

LEMMA NoLineRead ==
    ASSUME NEW n \in Nat, NEW T, NEW lines \in [1 .. n -> T]
    PROVE  /\ Len(lines) = n /\ Len(lines) - Len(<<>>) = n
           /\ lines = SubSeq(lines, 1, n) \o <<>>
  <1>1. lines \in Seq(T) /\ Len(lines) = n
    OBVIOUS
  <1>2. SubSeq(lines, 1, n) = lines
    BY <1>1, SeqEqual
  <1> QED BY <1>1, <1>2

(* The numbered list, read line by line.                                   *)
LEMMA NumberedPick ==
    ASSUME NEW lines, NEW count, NEW multi, NEW default
    PROVE  LET good == {j \in DOMAIN lines : lines[j] = <<>> \/ IsChoice(lines[j], count, multi)}
               i    == Leftmost(good)
               rest == SubSeq(lines, i + 1, Len(lines))
               d    == PickNumbered(lines, count, multi, default)
           IN  /\ good = {} => d = NoAnswer("cancelled", <<>>)
               /\ good # {} /\ lines[i] # <<>> => d = Answer(FirstMentions(lines[i]), rest)
               /\ good # {} /\ lines[i] = <<>> /\ default # 0 => d = Answer(<<default>>, rest)
               /\ good # {} /\ lines[i] = <<>> /\ default = 0 => d = NoAnswer("cancelled", rest)
  <1> DEFINE good == {j \in DOMAIN lines : lines[j] = <<>> \/ IsChoice(lines[j], count, multi)}
             i    == Leftmost(good)
             rest == SubSeq(lines, i + 1, Len(lines))
             d    == PickNumbered(lines, count, multi, default)
             meaning == IF lines[i] # <<>> THEN Answer(FirstMentions(lines[i]), <<>>)
                        ELSE IF default # 0 THEN Answer(<<default>>, <<>>)
                        ELSE NoAnswer("cancelled", <<>>)
  <1>1. good = {} => d = NoAnswer("cancelled", <<>>)
    BY DEF PickNumbered, Ask
  <1>2. good # {} => d = [meaning EXCEPT !.rest = rest]
    BY DEF PickNumbered, Ask
  <1> HIDE DEF d, rest, i, good
  <1>3. lines[i] # <<>> => [meaning EXCEPT !.rest = rest] = Answer(FirstMentions(lines[i]), rest)
    BY DEF Answer
  <1>4. lines[i] = <<>> /\ default # 0 => [meaning EXCEPT !.rest = rest] = Answer(<<default>>, rest)
    BY DEF Answer
  <1>5. lines[i] = <<>> /\ default = 0 => [meaning EXCEPT !.rest = rest] = NoAnswer("cancelled", rest)
    BY DEF NoAnswer
  <1> HIDE DEF meaning
  <1> QED BY <1>1, <1>2, <1>3, <1>4, <1>5 DEF d, rest, i, good

(* Whatever is typed at a numbered list.                                   *)
LEMMA EveryNumberedPick == NumberedPicks
  <1> SUFFICES ASSUME NEW count \in 1 .. MaxOptions, NEW multi \in BOOLEAN,
                      NEW lines \in SeqOf(Lines(count), 2), NEW default \in 0 .. count
               PROVE  LET d    == PickNumbered(lines, count, multi, default)
                          read == Len(lines) - Len(d.rest)
                      IN  /\ lines = SubSeq(lines, 1, read) \o d.rest
                          /\ d.outcome = "answered" =>
                              IF lines[read] = <<>> THEN d.value = <<default>> /\ default # 0
                              ELSE IsPick(d.value, lines[read]) /\ (Len(d.value) = 1 \/ multi)
                          /\ \A i \in 1 .. read - 1 :
                              lines[i] # <<>> /\ (ToSet(lines[i]) \subseteq 1 .. count => ~multi)
    BY DEF NumberedPicks
  <1> DEFINE d    == PickNumbered(lines, count, multi, default)
             read == Len(lines) - Len(d.rest)
             good == {j \in DOMAIN lines : lines[j] = <<>> \/ IsChoice(lines[j], count, multi)}
             i    == Leftmost(good)
             rest == SubSeq(lines, i + 1, Len(lines))
  <1>1. PICK n \in Nat : lines \in [1 .. n -> Lines(count)]
    BY SeqOfHas
  <1>2. Len(lines) = n /\ DOMAIN lines = 1 .. n
    BY <1>1
  <1>3. /\ good = {} => d = NoAnswer("cancelled", <<>>)
        /\ good # {} /\ lines[i] # <<>> => d = Answer(FirstMentions(lines[i]), rest)
        /\ good # {} /\ lines[i] = <<>> /\ default # 0 => d = Answer(<<default>>, rest)
        /\ good # {} /\ lines[i] = <<>> /\ default = 0 => d = NoAnswer("cancelled", rest)
    BY NumberedPick
  <1>4. ASSUME NEW j \in 1 .. n, j \notin good
        PROVE  lines[j] # <<>> /\ (ToSet(lines[j]) \subseteq 1 .. count => ~multi)
    <2>1. ~ (lines[j] = <<>>) /\ ~ IsChoice(lines[j], count, multi)
      BY <1>2, <1>4
    <2> QED BY <2>1 DEF IsChoice, ToSet
  <1> HIDE DEF d
  <1>5. CASE good = {}
    <2>1. d.outcome # "answered" /\ d.rest = <<>>
      BY <1>3, <1>5 DEF NoAnswer
    <2>2. read = n /\ lines = SubSeq(lines, 1, read) \o d.rest
      BY <1>1, <2>1, NoLineRead
    <2>3. \A j \in 1 .. n - 1 :
              lines[j] # <<>> /\ (ToSet(lines[j]) \subseteq 1 .. count => ~multi)
      <3>1. \A j \in 1 .. n - 1 : j \in 1 .. n /\ j \notin good
        BY <1>5
      <3> QED BY <1>4, <3>1
    <2> QED BY <2>1, <2>2, <2>3 DEF d
  <1>6. CASE good # {}
    <2>1. good \in SUBSET (1 .. n)
      BY <1>2
    <2>2. ReadsTo(i, lines, good, n)
      <3> HIDE DEF good
      <3> QED BY <1>1, <1>6, <2>1, LinesRead
    <2>3. d.rest = rest
      <3> HIDE DEF rest, i, good
      <3> QED BY <1>3, <1>6 DEF Answer, NoAnswer
    <2>4. read = i
      BY <2>2, <2>3 DEF ReadsTo
    <2>5. ASSUME d.outcome = "answered"
          PROVE  IF lines[i] = <<>> THEN d.value = <<default>> /\ default # 0
                 ELSE IsPick(d.value, lines[i]) /\ (Len(d.value) = 1 \/ multi)
      <3>1. CASE lines[i] = <<>>
        <4> HIDE DEF rest, i, good
        <4> QED BY <1>3, <1>6, <2>5, <3>1 DEF Answer, NoAnswer
      <3>2. CASE lines[i] # <<>>
        <4>1. d.value = FirstMentions(lines[i])
          <5> HIDE DEF rest, i, good
          <5> QED BY <1>3, <1>6, <3>2 DEF Answer
        <4>2. i \in 1 .. n /\ IsChoice(lines[i], count, multi)
          BY <2>2, <3>2 DEF ReadsTo
        <4>3. PICK m \in Nat : lines[i] \in [1 .. m -> (0 .. count + 1) \cup {Word}]
          <5>1. lines[i] \in Lines(count)
            BY <1>1, <4>2
          <5> QED BY <5>1, SeqOfHas DEF Lines
        <4>4. multi \/ m = 1
          <5>1. Len(lines[i]) = m
            BY <4>3
          <5> QED BY <4>2, <5>1 DEF IsChoice
        <4>5. /\ IsPick(FirstMentions(lines[i]), lines[i])
              /\ m = 1 => Len(FirstMentions(lines[i])) = 1
          BY <4>3, EveryPickExact
        <4> QED BY <3>2, <4>1, <4>4, <4>5
      <3> QED BY <3>1, <3>2
    <2>6. \A j \in 1 .. i - 1 :
              lines[j] # <<>> /\ (ToSet(lines[j]) \subseteq 1 .. count => ~multi)
      BY <1>4, <2>2 DEF ReadsTo
    <2>7. lines = SubSeq(lines, 1, i) \o rest
      BY <2>2 DEF ReadsTo
    <2> HIDE DEF read
    <2> QED BY <2>3, <2>4, <2>5, <2>6, <2>7 DEF d, read
  <1> QED BY <1>5, <1>6

(* A line of numbers is what fzf answers with as many records.             *)
LEMMA EveryFZFPick == FZFPicks
  <1> SUFFICES ASSUME NEW count \in 1 .. MaxOptions, NEW multi \in BOOLEAN,
                      NEW line \in Lines(MaxOptions), IsChoice(line, count, multi)
               PROVE  PickFZF(0, [i \in DOMAIN line |-> [index |-> line[i], tab |-> TRUE]],
                              count, multi)
                        = PickNumbered(<<line>>, count, multi, 0)
    BY DEF FZFPicks
  <1> DEFINE records == [i \in DOMAIN line |-> [index |-> line[i], tab |-> TRUE]]
             lines == <<line>>
             good == {j \in DOMAIN lines : lines[j] = <<>> \/ IsChoice(lines[j], count, multi)}
  <1>1. PICK m \in Nat : line \in [1 .. m -> (0 .. MaxOptions + 1) \cup {Word}]
    BY SeqOfHas DEF Lines
  <1>2. line # <<>> /\ (multi \/ m = 1) /\ \A i \in 1 .. m : line[i] \in 1 .. count
    BY SMTT(30), <1>1 DEF IsChoice
  <1>3. PickFZF(0, records, count, multi) = Answer(FirstMentions(line), <<>>)
    <2>1. DOMAIN records = 1 .. m /\ Len(records) = m
      BY <1>1
    <2>2. \A i \in 1 .. m : records[i].tab /\ records[i].index = line[i]
      BY <1>1
    <2>3. m # 0
      BY <1>1, <1>2
    <2>4. records # <<>>
      BY <2>1, <2>3
    <2>5. [i \in DOMAIN records |-> records[i].index] = line
      BY <1>1, <2>1, <2>2
    <2> HIDE DEF records
    <2> QED BY <1>2, <2>1, <2>2, <2>4, <2>5 DEF PickFZF
  <1>4. PickNumbered(lines, count, multi, 0) = Answer(FirstMentions(line), <<>>)
    <2>1. DOMAIN lines = {1} /\ lines[1] = line /\ Len(lines) = 1 /\ SubSeq(lines, 1 + 1, 1) = <<>>
      OBVIOUS
    <2>2. good = {1}
      <3> HIDE DEF lines
      <3> QED BY <2>1
    <2>3. Leftmost({1}) = 1
      <3>1. \A j \in {1} : 1 <= j
        OBVIOUS
      <3> QED BY <3>1 DEF Leftmost
    <2> HIDE DEF lines
    <2>4. good # {} /\ lines[Leftmost(good)] # <<>>
            => PickNumbered(lines, count, multi, 0)
                 = Answer(FirstMentions(lines[Leftmost(good)]),
                          SubSeq(lines, Leftmost(good) + 1, Len(lines)))
      BY NumberedPick
    <2> HIDE DEF good
    <2> QED BY <1>2, <2>1, <2>2, <2>3, <2>4
  <1> QED BY <1>3, <1>4

(* A question, read line by line.                                          *)
LEMMA Confirmed ==
    ASSUME NEW lines, NEW default
    PROVE  LET good == {j \in DOMAIN lines : lines[j] \in {"", "y", "yes", "n", "no"}}
               i    == Leftmost(good)
               d    == Confirm(lines, default)
           IN  /\ good = {} => d = NoAnswer("cancelled", <<>>)
               /\ good # {} =>
                    d = Answer(IF lines[i] = "" THEN default ELSE lines[i] \in {"y", "yes"},
                               SubSeq(lines, i + 1, Len(lines)))
  <1> DEFINE good == {j \in DOMAIN lines : lines[j] \in {"", "y", "yes", "n", "no"}}
             i    == Leftmost(good)
             d    == Confirm(lines, default)
             value == IF lines[i] = "" THEN default ELSE lines[i] \in {"y", "yes"}
  <1>1. good = {} => d = NoAnswer("cancelled", <<>>)
    BY DEF Confirm, Ask
  <1>2. good # {} => d = [Answer(value, <<>>) EXCEPT !.rest = SubSeq(lines, i + 1, Len(lines))]
    BY DEF Confirm, Ask
  <1> HIDE DEF d, i, good, value
  <1>3. good # {} => d = Answer(value, SubSeq(lines, i + 1, Len(lines)))
    BY <1>2 DEF Answer
  <1> QED BY <1>1, <1>3 DEF d, i, good, value

(* A value takes one line.                                                 *)
LEMMA InputTakesOne ==
    ASSUME NEW n \in Nat, NEW T, NEW lines \in [1 .. n -> T], lines # <<>>, NEW default
    PROVE  Input(lines, default).rest = Tail(lines)
  <1> DEFINE all == {j \in DOMAIN lines : TRUE}
             i   == Leftmost(all)
             value == IF lines[i] = "" THEN default ELSE lines[i]
  <1>1. DOMAIN lines = 1 .. n /\ Len(lines) = n /\ n >= 1
    <2>1. n # 0
      OBVIOUS
    <2> QED BY <2>1
  <1>2. i = 1
    <2>1. all = 1 .. n /\ 1 \in all /\ all \in SUBSET Nat
      BY <1>1
    <2> HIDE DEF all
    <2>2. i \in all /\ \A k \in all : i <= k
      BY <2>1, IsLeftmost
    <2> QED BY <2>1, <2>2
  <1>3. Input(lines, default)
          = [Answer(value, <<>>) EXCEPT !.rest = SubSeq(lines, i + 1, Len(lines))]
    <2>1. \E j \in DOMAIN lines : TRUE
      BY <1>1
    <2> QED BY <2>1 DEF Input, Ask
  <1> HIDE DEF i, value
  <1>4. Input(lines, default).rest = SubSeq(lines, 2, Len(lines))
    BY <1>2, <1>3 DEF Answer
  <1>5. Tail(lines) = SubSeq(lines, 2, Len(lines))
    BY <1>1
  <1> QED BY <1>4, <1>5

(* Whatever is typed at a question or for a value.                         *)
LEMMA EveryPrompt == Prompts
  <1> DEFINE T == {"", "yes", "n", Word}
  <1> SUFFICES ASSUME NEW lines \in SeqOf(T, 3), NEW default \in BOOLEAN
               PROVE  LET d    == Confirm(lines, default)
                          read == Len(lines) - Len(d.rest)
                      IN  /\ lines = SubSeq(lines, 1, read) \o d.rest
                          /\ IF d.outcome = "answered"
                             THEN /\ ToSet(SubSeq(lines, 1, read - 1)) \subseteq {Word}
                                  /\ d.value = (lines[read] = "yes" \/ (lines[read] = "" /\ default))
                             ELSE ToSet(lines) \subseteq {Word}
                          /\ lines # <<>> => Input(lines, Word).rest = Tail(lines)
    BY DEF Prompts
  <1> DEFINE d    == Confirm(lines, default)
             read == Len(lines) - Len(d.rest)
             good == {j \in DOMAIN lines : lines[j] \in {"", "y", "yes", "n", "no"}}
             i    == Leftmost(good)
             rest == SubSeq(lines, i + 1, Len(lines))
             value == IF lines[i] = "" THEN default ELSE lines[i] \in {"y", "yes"}
  <1>1. \A word \in T : word \in {"", "y", "yes", "n", "no"} => word \in {"", "yes", "n"}
    BY PickerAssumption
  <1>2. \A word \in T : word \notin {"", "y", "yes", "n", "no"} => word = Word
    OBVIOUS
  <1> HIDE DEF T
  <1>3. PICK n \in Nat : lines \in [1 .. n -> T]
    BY SeqOfHas
  <1>4. Len(lines) = n /\ DOMAIN lines = 1 .. n
    BY <1>3
  <1>5. \A j \in 1 .. n : j \notin good => lines[j] = Word
    BY <1>2, <1>3, <1>4
  <1>6. lines # <<>> => Input(lines, Word).rest = Tail(lines)
    BY <1>3, InputTakesOne
  <1>7. /\ good = {} => d = NoAnswer("cancelled", <<>>)
        /\ good # {} => d = Answer(value, rest)
    BY Confirmed
  <1> HIDE DEF d
  <1>8. CASE good = {}
    <2>1. d.outcome # "answered" /\ d.rest = <<>>
      <3> HIDE DEF value, rest, good
      <3> QED BY <1>7, <1>8 DEF NoAnswer
    <2>2. read = n /\ lines = SubSeq(lines, 1, read) \o d.rest
      BY <1>3, <2>1, NoLineRead
    <2>3. ToSet(lines) \subseteq {Word}
      BY ZenonT(60), <1>4, <1>5, <1>8 DEF ToSet
    <2> HIDE DEF read
    <2> QED BY <1>6, <2>1, <2>2, <2>3 DEF d, read
  <1>9. CASE good # {}
    <2>1. good \in SUBSET (1 .. n)
      BY <1>4
    <2>2. ReadsTo(i, lines, good, n)
      <3> HIDE DEF good
      <3> QED BY <1>3, <1>9, <2>1, LinesRead
    <2>3. d.outcome = "answered" /\ d.rest = rest /\ d.value = value
      <3> HIDE DEF value, rest, good
      <3> QED BY <1>7, <1>9 DEF Answer
    <2>4. read = i
      BY <2>2, <2>3 DEF ReadsTo
    <2>5. ToSet(SubSeq(lines, 1, i - 1)) \subseteq {Word}
      <3> HIDE DEF good, i
      <3> QED BY <1>5, <2>2 DEF ToSet, ReadsTo
    <2>6. value = (lines[i] = "yes" \/ (lines[i] = "" /\ default))
      <3>1. i \in 1 .. n /\ lines[i] \in {"", "y", "yes", "n", "no"}
        BY <2>2 DEF ReadsTo
      <3>2. lines[i] \in {"", "yes", "n"}
        BY <1>1, <1>3, <3>1
      <3> HIDE DEF i
      <3>3. CASE lines[i] = ""
        <4>1. value = default /\ ~ (lines[i] = "yes")
          BY <3>3
        <4> QED BY <3>3, <4>1, Zenon
      <3>4. CASE lines[i] = "yes"
        BY <3>4
      <3>5. CASE lines[i] = "n"
        BY <3>5
      <3> QED BY <3>2, <3>3, <3>4, <3>5
    <2>7. lines = SubSeq(lines, 1, i) \o rest
      BY <2>2 DEF ReadsTo
    <2> HIDE DEF read, value
    <2> QED BY <1>6, <2>3, <2>4, <2>5, <2>6, <2>7 DEF d, read
  <1> QED BY <1>8, <1>9

LEMMA EveryDialogue == DialoguesExact
  BY EveryNumberedPick, EveryFZFPick, EveryPrompt DEF DialoguesExact

(* Whatever is typed at the list that a command shows and at the prompts   *)
(* behind it (picker.pickNumbered, pickFZF, Confirm, Input).               *)
THEOREM PicksAreExact == Spec => []PicksExact
  <1>1. PicksExact
    BY EveryDialogue DEF PicksExact
  <1> QED BY <1>1, PTL

-----------------------------------------------------------------------------
(* What is picked is what is cloned. *)

(* The keys of the rows that were picked.                                  *)
LEMMA PickedKeys ==
    ASSUME NEW n \in Nat, NEW options, DOMAIN options = 1 .. n, Len(options) = n,
           NEW m \in Nat, NEW line \in [1 .. m -> 1 .. n],
           Pick(options, <<line>>, TRUE, Word).outcome = "answered"
    PROVE  /\ ToSet(Pick(options, <<line>>, TRUE, Word).value) = {options[i] : i \in ToSet(line)}
           /\ IsFiniteSet(ToSet(Pick(options, <<line>>, TRUE, Word).value))
  <1> DEFINE lines == <<line>>
             good == {j \in DOMAIN lines :
                        lines[j] = <<>> \/ IsChoice(lines[j], Len(options), TRUE)}
             i == Leftmost(good)
             rest == SubSeq(lines, i + 1, Len(lines))
             d == PickNumbered(lines, Len(options), TRUE, 0)
             answer == Pick(options, lines, TRUE, Word)
             named == FirstMentions(line)
  <1>1. options # <<>>
    BY DEF Pick, NoAnswer
  <1>2. answer = [d EXCEPT !.value = [k \in DOMAIN d.value |-> options[d.value[k]]]]
    BY <1>1 DEF Pick
  <1>3. DOMAIN lines = {1} /\ lines[1] = line
    OBVIOUS
  <1> HIDE DEF lines
  <1>4. IsChoice(line, Len(options), TRUE) \/ line = <<>>
    BY DEF IsChoice
  <1>5. good = {1} /\ i = 1
    <2>1. good = {1}
      BY <1>3, <1>4
    <2>2. \A j \in {1} : 1 <= j
      OBVIOUS
    <2> HIDE DEF good
    <2> QED BY <2>1, <2>2 DEF Leftmost
  <1>6. /\ line # <<>> => d = Answer(FirstMentions(line), rest)
        /\ line = <<>> => d = NoAnswer("cancelled", rest)
    <2>1. /\ good # {} /\ lines[i] # <<>> => d = Answer(FirstMentions(lines[i]), rest)
          /\ good # {} /\ lines[i] = <<>> => d = NoAnswer("cancelled", rest)
      BY NumberedPick
    <2> HIDE DEF d, rest, good, i
    <2> QED BY <1>3, <1>5, <2>1
  <1> HIDE DEF d, rest, i, good
  <1>7. line # <<>>
    <2> SUFFICES ASSUME line = <<>> PROVE answer.outcome = "cancelled"
      BY DEF lines
    <2>1. d = NoAnswer("cancelled", rest)
      BY <1>6
    <2> HIDE DEF answer
    <2> QED BY <1>2, <2>1 DEF NoAnswer
  <1>8. d.value = named
    BY <1>6, <1>7 DEF Answer
  <1>9. answer.value = [k \in DOMAIN named |-> options[named[k]]]
    <2>1. d = Answer(named, rest)
      BY <1>6, <1>7
    <2> HIDE DEF answer, named
    <2> QED BY <1>2, <1>8, <2>1 DEF Answer
  <1>10. /\ named \in Seq(1 .. n)
         /\ ToSet(named) = ToSet(line)
    BY EveryPickExact DEF IsPick
  <1> HIDE DEF answer, named
  <1>11. ToSet(answer.value) = {options[named[k]] : k \in DOMAIN named}
    BY <1>9 DEF ToSet
  <1>12. {options[named[k]] : k \in DOMAIN named} = {options[j] : j \in ToSet(named)}
    BY DEF ToSet
  <1>13. IsFiniteSet(ToSet(answer.value))
    <2>1. IsFiniteSet(DOMAIN named)
      BY <1>10, FS_Interval
    <2>2. ToSet(answer.value) = {answer.value[k] : k \in DOMAIN named}
      BY <1>9 DEF ToSet
    <2> QED BY <2>1, <2>2, RangeIsFinite
  <1> QED BY <1>10, <1>11, <1>12, <1>13 DEF answer, lines

(* A sequence of all values of a finite set.                               *)
LEMMA SequenceOfSet ==
    ASSUME NEW S, IsFiniteSet(S)
    PROVE  \E n \in Nat : SetToSeq(S) \in [1 .. n -> S] /\ ToSet(SetToSeq(S)) = S
  <1> DEFINE n == Cardinality(S)
  <1>1. n \in Nat /\ ExistsBijection(1 .. n, S)
    BY FS_CardinalityType
  <1>2. \E f \in [1 .. n -> S] : IsInjective(f)
    <2>1. PICK f \in Bijection(1 .. n, S) : TRUE
      BY <1>1 DEF ExistsBijection
    <2>2. f \in [1 .. n -> S] /\ IsInjective(f)
      BY <2>1 DEF Bijection, Injection, IsInjective
    <2> QED BY <2>2
  <1> DEFINE f == SetToSeq(S)
  <1>3. f \in [1 .. n -> S] /\ IsInjective(f)
    BY <1>2 DEF SetToSeq
  <1> HIDE DEF f, n
  <1>4. f \in Surjection(1 .. n, S)
    <2>1. f \in Injection(1 .. n, S)
      BY <1>3 DEF Injection, IsInjective
    <2>2. IsFiniteSet(1 .. n) /\ Cardinality(1 .. n) = n
      BY <1>1, FS_Interval
    <2> QED BY <1>1, <2>1, <2>2, FS_Injection DEF n
  <1>5. ToSet(f) = S
    BY <1>3, <1>4 DEF Surjection, ToSet
  <1> QED BY <1>1, <1>3, <1>5 DEF f


LEMMA ListedNames ==
    ASSUME TypeOK, NEW w, NEW item \in Listed(w)
    PROVE  item.name \in Names
  <1>1. PICK r \in ResourceIds : item.name = db.resources[r].name /\ HasResource(db, r)
    BY DEF Listed, WorkspaceResources
  <1>2. db.resources[r] \in ResourceRow
    BY <1>1 DEF TypeOK, RegistryTypeOK, Database, HasResource
  <1> QED BY <1>1, <1>2 DEF ResourceRow

(* What a command knows its picked rows by are their keys.                 *)
PickKnown(c) ==
    /\ proc[c].selectors = {row.key : row \in proc[c].picked}
    /\ IsFiniteSet(proc[c].selectors)

PickInv == \A c \in Procs : (proc[c] # NULL /\ proc[c].pc \in Preparing) => PickKnown(c)

(* Preparing a command goes on with what it has, or picks.                 *)
LEMMA PickOfRows ==
    ASSUME IsFiniteSet(ResourceIds), TypeOK, NEW c \in Procs, proc[c] # NULL, PickRepositories(c)
    PROVE  /\ proc'[c].selectors = {row.key : row \in proc'[c].picked}
           /\ IsFiniteSet(proc'[c].selectors)
  <1>1. PICK rows \in Listings(proc[c].workspace) : \E line \in SeqOf(1 .. Len(rows), 2) :
          LET answer == Pick([i \in DOMAIN rows |-> rows[i].key], <<line>>, TRUE, Word)
          IN  /\ answer.outcome = "answered"
              /\ \E picked \in SUBSET Listed(proc[c].workspace), keys \in SUBSET ExternalKeys :
                  /\ picked = {rows[i] : i \in ToSet(line)}
                  /\ keys = ToSet(answer.value)
                  /\ proc' = [proc EXCEPT ![c].pc = "picked", ![c].picked = picked,
                                          ![c].selectors = keys]
    BY Zenon DEF PickRepositories
  <1>2. PICK line \in SeqOf(1 .. Len(rows), 2),
             picked \in SUBSET Listed(proc[c].workspace), keys \in SUBSET ExternalKeys :
          LET answer == Pick([i \in DOMAIN rows |-> rows[i].key], <<line>>, TRUE, Word)
          IN  /\ answer.outcome = "answered"
              /\ picked = {rows[i] : i \in ToSet(line)}
              /\ keys = ToSet(answer.value)
              /\ proc' = [proc EXCEPT ![c].pc = "picked", ![c].picked = picked,
                                      ![c].selectors = keys]
    BY <1>1, Zenon
  <1> DEFINE options == [i \in DOMAIN rows |-> rows[i].key]
             answer == Pick(options, <<line>>, TRUE, Word)
  <1>3. PICK n \in Nat : DOMAIN rows = 1 .. n /\ rows \in [1 .. n -> Listed(proc[c].workspace)]
    <2>1. Cardinality(Listed(proc[c].workspace)) \in Nat
      BY ListedAreDistinct, FS_CardinalityType
    <2> QED BY <2>1 DEF Listings, SetToSeqs
  <1>4. Len(rows) = n /\ DOMAIN options = 1 .. n /\ Len(options) = n
    BY <1>3
  <1>5. PICK m \in Nat : line \in [1 .. m -> 1 .. n]
    BY <1>4, SeqOfHas
  <1>6. ToSet(answer.value) = {options[i] : i \in ToSet(line)} /\ IsFiniteSet(ToSet(answer.value))
    <2>1. answer.outcome = "answered"
      BY <1>2
    <2> HIDE DEF options
    <2> QED BY <1>4, <1>5, <2>1, PickedKeys
  <1>7. {options[i] : i \in ToSet(line)} = {row.key : row \in picked}
    <2>1. \A i \in ToSet(line) : i \in 1 .. n
      BY <1>5 DEF ToSet
    <2> QED BY <1>2, <1>3, <2>1
  <1>8. proc'[c].picked = picked /\ proc'[c].selectors = keys
    <2>1. proc \in [Procs -> Command \cup {NULL}] /\ proc[c] \in Command
      BY DEF TypeOK
    <2> QED BY <1>2, <2>1 DEF Command
  <1> HIDE DEF answer, options
  <1>9. keys = ToSet(answer.value)
    BY <1>2 DEF answer, options
  <1> QED BY <1>6, <1>7, <1>8, <1>9

LEMMA OthersStay ==
    ASSUME TypeOK, [Next]_clone, NEW c \in Procs, proc'[c] # proc[c]
    PROVE  \/ \E w \in WorkspaceIds : Resolve(c, w)
           \/ proc[c] # NULL /\ Step(c)
           \/ Crash(c)
  <1>1. proc \in [Procs -> Command \cup {NULL}] /\ proc' # proc
    BY DEF TypeOK
  <1>2. ASSUME NEW d \in Procs, NEW w \in WorkspaceIds, Resolve(d, w)
        PROVE  d = c
    BY <1>1, <1>2 DEF Resolve
  <1>3. ASSUME NEW d \in Procs, Crash(d)
        PROVE  d = c
    BY SMTT(30), <1>1, <1>3 DEF Crash
  <1>4. ASSUME NEW d \in Procs, RepositoryStep(d)
        PROVE  d = c
    BY ZenonT(60), <1>1, <1>4 DEF RepositoryStep, AlreadyCloned, Adopt, FindAbsent, InHand, RefuseRepository,
       InspectClone, FailRepository, Register, RegisterFails, NextRepository, CloneBegins,
       CloneCompletes, CloneFails
  <1>5. ASSUME NEW d \in Procs, Step(d)
        PROVE  d = c
    BY <1>1, <1>4, <1>5 DEF Step, Discover, StoreRepositories, PickRepositories, ResumePick,
       SelectPicked, SelectRepositories, GiveUp, Finish
  <1> QED BY <1>1, <1>2, <1>3, <1>5 DEF Next, clone, Environment, AddWorkspaces, OtherRefresh,
       SwitchHost, EditHost, EditDirs

LEMMA PickStep ==
    ASSUME IsFiniteSet(ResourceIds), BaseInv, PickInv, [Next]_clone
    PROVE  PickInv'
  <1> SUFFICES ASSUME NEW c \in Procs, proc'[c] # NULL, proc'[c].pc \in Preparing
               PROVE  PickKnown(c)'
    BY DEF PickInv
  <1>1. proc \in [Procs -> Command \cup {NULL}]
    BY DEF BaseInv, TypeOK
  <1>2. CASE proc'[c] = proc[c]
    BY <1>2 DEF PickInv, PickKnown
  <1>3. ASSUME NEW w \in WorkspaceIds, Resolve(c, w)
        PROVE  PickKnown(c)'
    <2>1. proc'[c].picked = {} /\ proc'[c].selectors = {}
      BY <1>1, <1>3 DEF Resolve
    <2> QED BY <2>1, FS_EmptySet DEF PickKnown
  <1>4. ~Crash(c)
    BY <1>1 DEF Crash
  <1>5. ASSUME proc[c] # NULL, Discover(c) \/ StoreRepositories(c) \/ ResumePick(c)
        PROVE  PickKnown(c)'
    <2>1. proc[c] \in Command
      BY <1>1, <1>5
    <2>2. proc[c].pc \in Preparing
      BY <1>5 DEF Discover, StoreRepositories, ResumePick, At, Preparing
    <2>3. proc'[c].picked = proc[c].picked /\ proc'[c].selectors = proc[c].selectors
      BY <1>1, <1>5, <2>1 DEF Discover, StoreRepositories, ResumePick, Command
    <2> QED BY <1>5, <2>2, <2>3 DEF PickInv, PickKnown
  <1>6. ASSUME proc[c] # NULL, PickRepositories(c)
        PROVE  PickKnown(c)'
    BY <1>6, PickOfRows DEF BaseInv, PickKnown
  <1>7. ASSUME proc[c] # NULL
        PROVE  ~SelectPicked(c) /\ \A items : ~SelectRepositories(c, items)
    <2>1. proc[c] \in Command
      BY <1>1, <1>7
    <2>2. SelectPicked(c) => proc'[c].pc = "listed"
      BY <1>1, <2>1 DEF SelectPicked, Command
    <2>3. \A items : SelectRepositories(c, items) => proc'[c].pc = "listed"
      BY <1>1, <2>1 DEF SelectRepositories, Command
    <2> QED BY <2>2, <2>3 DEF Preparing
  <1>8. ~GiveUp(c) /\ ~Finish(c)
    BY <1>1 DEF GiveUp, Finish
  <1>9. ASSUME proc[c] # NULL
        PROVE  ~RepositoryStep(c)
    <2>1. proc[c] \in Command
      BY <1>1, <1>9
    <2>2. ASSUME NEW item PROVE ~AlreadyCloned(c, item) /\ ~RefuseRepository(c, item)
      <3>1. AlreadyCloned(c, item) \/ RefuseRepository(c, item) => proc'[c].pc = "listed"
        BY <1>1, <2>1 DEF AlreadyCloned, RefuseRepository, NextRepository, Command
      <3> QED BY <3>1 DEF Preparing
    <2>3. ASSUME NEW item PROVE ~Adopt(c, item) /\ ~FindAbsent(c, item)
      <3>1. \A pc : InHand(c, item, pc) => proc'[c].pc = pc
        BY <1>1, <2>1 DEF InHand, Command
      <3>2. /\ Adopt(c, item) => InHand(c, item, "valid")
            /\ FindAbsent(c, item) => InHand(c, item, "absent")
        BY Zenon DEF Adopt, FindAbsent, InHand
      <3> QED BY <3>1, <3>2 DEF Preparing
    <2>4. ~CloneFails(c) /\ ~FailRepository(c) /\ ~Register(c) /\ ~RegisterFails(c)
      <3>1. CloneFails(c) \/ FailRepository(c) \/ Register(c) \/ RegisterFails(c)
              => proc'[c].pc = "listed"
        BY <1>1, <2>1 DEF CloneFails, FailRepository, Register, RegisterFails, NextRepository, Command
      <3> QED BY <3>1 DEF Preparing
    <2>5. ~CloneBegins(c) /\ ~CloneCompletes(c) /\ ~InspectClone(c)
      <3>1. CloneBegins(c) \/ CloneCompletes(c) \/ InspectClone(c)
              => proc'[c].pc \in {"cloning", "cloned", "valid"}
        BY <1>1, <2>1 DEF CloneBegins, CloneCompletes, InspectClone, Command
      <3> QED BY <3>1 DEF Preparing
    <2> QED BY <2>2, <2>3, <2>4, <2>5 DEF RepositoryStep
  <1>10. ASSUME proc[c] # NULL, Step(c)
         PROVE  PickKnown(c)'
    BY <1>5, <1>6, <1>7, <1>8, <1>9, <1>10 DEF Step
  <1> QED BY <1>2, <1>3, <1>4, <1>10, OthersStay DEF BaseInv

LEMMA PickInit == Init => PickInv
  BY DEF Init, PickInv

(* A command that has picked selects the keys of what was picked.          *)
LEMMA PickedSelected ==
    ASSUME IsFiniteSet(ResourceIds), BaseInv, PickInv, NEW c \in Procs, proc[c] # NULL,
           SelectPicked(c)
    PROVE  LET keys == {row.key : row \in proc[c].picked}
           IN  /\ proc'[c].todo \in SUBSET Listed(proc[c].workspace)
               /\ {item.key : item \in proc'[c].todo} = keys
  <1>1. PICK rows \in Listings(proc[c].workspace), items \in SUBSET Listed(proc[c].workspace) :
          LET selectors == SetToSeq(proc[c].selectors)
          IN  /\ Accepted(rows, selectors, "repository")
              /\ items = ToSet(Selected(rows, selectors, "repository"))
              /\ proc' = [proc EXCEPT ![c].pc = "listed", ![c].picked = {}, ![c].selectors = {},
                                      ![c].todo = items]
    BY DEF SelectPicked
  <1> DEFINE selectors == SetToSeq(proc[c].selectors)
             listed == Listed(proc[c].workspace)
             chosen == Selected(rows, selectors, "repository")
             row(k) == RowFor(rows, selectors[k], "repository")
  <1>2. PickKnown(c)
    BY DEF SelectPicked, At, PickInv, Preparing
  <1>3. PICK n \in Nat : selectors \in [1 .. n -> proc[c].selectors]
                         /\ ToSet(selectors) = proc[c].selectors
    BY <1>2, SequenceOfSet DEF PickKnown
  <1>4. PICK m \in Nat : rows \in [1 .. m -> listed]
    <2>1. Cardinality(listed) \in Nat
      BY ListedAreDistinct, FS_CardinalityType
    <2> QED BY <2>1 DEF Listings, SetToSeqs
  <1>5. Distinct(rows)
    <2>1. \A a, b \in listed : a.resource = b.resource => a = b
      BY ListedAreDistinct
    <2>2. /\ \A i \in DOMAIN rows : rows[i] \in listed
          /\ \A i, j \in DOMAIN rows : i # j => rows[i] # rows[j]
      BY DEF Listings, SetToSeqs
    <2> HIDE DEF listed
    <2> QED BY <2>1, <2>2 DEF Distinct
  <1>6. proc[c] \in Command /\ proc \in [Procs -> Command \cup {NULL}]
    BY DEF BaseInv, TypeOK
  <1>7. proc'[c].todo = items
    BY <1>1, <1>6 DEF Command
  <1> HIDE DEF selectors, listed
  <1>8. ASSUME NEW k \in 1 .. n
        PROVE  /\ Meant(rows, selectors[k]) # {}
               /\ row(k).key = selectors[k]
    <2>1. /\ Cardinality(Matches(rows, selectors[k], "repository")) = 1
          /\ Meant(rows, selectors[k]) # {}
          /\ row(k) \in Meant(rows, selectors[k])
      <3>1. Accepted(rows, selectors, "repository")
        BY <1>1 DEF selectors
      <3>2. Cardinality(Matches(rows, selectors[k], "repository")) = 1
        BY <1>3, <3>1 DEF Accepted
      <3> QED BY <1>4, <3>2, MatchesAreMeant
    <2>2. selectors[k] \in ExternalKeys
      BY <1>3, <1>6 DEF Command
    <2>3. Named(rows, selectors[k]) = {}
      <3>1. \A i \in DOMAIN rows : rows[i].name \in Names
        BY <1>4, ListedNames DEF BaseInv, listed
      <3> QED BY <2>2, <3>1, CloneAssumption DEF Named
    <2>4. Keyed(rows, selectors[k]) # {}
      <3> SUFFICES ASSUME Keyed(rows, selectors[k]) = {} PROVE FALSE
        OBVIOUS
      <3>1. Matches(rows, selectors[k], "repository") = {}
        BY <2>3 DEF Matches
      <3> QED BY <2>1, <3>1, FS_EmptySet
    <2>5. Meant(rows, selectors[k]) = {rows[i] : i \in Keyed(rows, selectors[k])}
      BY <2>4 DEF Meant
    <2> QED BY <2>1, <2>5 DEF Keyed
  <1>9. PICK answer : Answers(answer, chosen, [k \in 1 .. n |-> row(k)], n)
    <2>1. DOMAIN rows = 1 .. m /\ DOMAIN selectors = 1 .. n
      BY <1>3, <1>4
    <2> QED BY <1>5, <1>8, <2>1, SelectedAnswers
  <1> HIDE DEF chosen, row
  <1>10. ToSet(chosen) = {row(k) : k \in 1 .. n}
    <2>1. ASSUME NEW i \in DOMAIN chosen PROVE \E k \in 1 .. n : chosen[i] = row(k)
      BY <1>9 DEF Answers
    <2>2. ASSUME NEW k \in 1 .. n PROVE \E i \in DOMAIN chosen : chosen[i] = row(k)
      BY <1>9 DEF Answers
    <2> QED BY <2>1, <2>2 DEF ToSet
  <1>11. items = {row(k) : k \in 1 .. n}
    BY <1>1, <1>10 DEF chosen, selectors
  <1>12. {item.key : item \in items} = {selectors[k] : k \in 1 .. n}
    BY <1>8, <1>11
  <1>13. {selectors[k] : k \in 1 .. n} = proc[c].selectors
    BY <1>3 DEF ToSet
  <1> QED BY <1>2, <1>7, <1>12, <1>13 DEF PickKnown

(* Only a repository step or a selection lists what a command shall clone. *)
LEMMA PickClonesPickedStep ==
    ASSUME IsFiniteSet(ResourceIds), BaseInv, PickInv, [Next]_clone, NEW c \in Procs,
           At(c, "stored"), proc[c].picked # {}, At(c, "listed")'
    PROVE  proc[c] # NULL /\ SelectPicked(c)
  <1>1. proc \in [Procs -> Command \cup {NULL}] /\ proc[c] # NULL /\ proc[c] \in Command
    BY DEF BaseInv, TypeOK, At
  <1>2. proc'[c] # proc[c] /\ proc'[c] # NULL /\ proc'[c].pc = "listed" /\ proc[c].pc = "stored"
    BY DEF At
  <1>3. ~Crash(c) /\ \A w : ~Resolve(c, w)
    BY <1>1, <1>2 DEF Crash, Resolve
  <1>4. proc[c].selectors # {}
    <2>1. PickKnown(c)
      BY <1>1, <1>2 DEF PickInv, Preparing
    <2> QED BY <2>1 DEF PickKnown
  <1>5. \A items : ~SelectRepositories(c, items)
    BY <1>4 DEF SelectRepositories
  <1>6. ~Discover(c) /\ ~StoreRepositories(c) /\ ~ResumePick(c) /\ ~GiveUp(c) /\ ~Finish(c)
    BY <1>1, <1>2 DEF Discover, StoreRepositories, ResumePick, GiveUp, Finish, At
  <1>7. ~PickRepositories(c)
    BY <1>4 DEF PickRepositories
  <1>8. ~RepositoryStep(c)
    BY <1>2 DEF RepositoryStep, AlreadyCloned, Adopt, FindAbsent, RefuseRepository,
       InspectClone, FailRepository, Register, RegisterFails, CloneBegins, CloneCompletes,
       CloneFails, At
  <1>9. Step(c)
    BY <1>1, <1>2, <1>3, OthersStay DEF BaseInv
  <1> QED BY <1>1, <1>5, <1>6, <1>7, <1>8, <1>9 DEF Step

(* What repo pick clones is what was picked, whatever is refreshed and     *)
(* configured between the pick and the clone (PickMany, CloneKnown).       *)
THEOREM PicksAreCloned ==
    ASSUME IsFiniteSet(ResourceIds)
    PROVE  Spec => PickClonesPicked
  <1>1. BaseInv /\ PickInv /\ [Next]_clone => PickInv'
    BY PickStep
  <1> DEFINE keys(c) == {row.key : row \in proc[c].picked}
             Cloned == \A c \in Procs : (At(c, "stored") /\ proc[c].picked # {} /\ At(c, "listed")') =>
                         /\ {item.key : item \in proc'[c].todo} = keys(c)
                         /\ (\A item \in Listed(proc[c].workspace) : item.key \in keys(c) =>
                                 \E row \in proc[c].picked : row.resource = item.resource)
                               => {item.resource : item \in proc'[c].todo} \subseteq
                                     {row.resource : row \in proc[c].picked}
  <1>2. BaseInv /\ PickInv /\ [Next]_clone => [Cloned]_clone
    <2> SUFFICES ASSUME BaseInv, PickInv, [Next]_clone, NEW c \in Procs,
                        At(c, "stored"), proc[c].picked # {}, At(c, "listed")'
                 PROVE  /\ {item.key : item \in proc'[c].todo} = keys(c)
                        /\ (\A item \in Listed(proc[c].workspace) : item.key \in keys(c) =>
                                \E row \in proc[c].picked : row.resource = item.resource)
                              => {item.resource : item \in proc'[c].todo} \subseteq
                                    {row.resource : row \in proc[c].picked}
      OBVIOUS
    <2>1. /\ proc'[c].todo \in SUBSET Listed(proc[c].workspace)
          /\ {item.key : item \in proc'[c].todo} = keys(c)
      BY PickClonesPickedStep, PickedSelected
    <2>2. ASSUME \A item \in Listed(proc[c].workspace) : item.key \in keys(c) =>
                    \E row \in proc[c].picked : row.resource = item.resource,
                 NEW item \in proc'[c].todo
          PROVE  item.resource \in {row.resource : row \in proc[c].picked}
      <3>1. item \in Listed(proc[c].workspace) /\ item.key \in keys(c)
        BY <2>1
      <3> QED BY <2>2, <3>1
    <2> QED BY <2>1, <2>2
  <1>3. Init => PickInv
    BY PickInit
  <1> QED BY <1>1, <1>2, <1>3, BaseInvInductive, PTL DEF Spec, PickClonesPicked

-----------------------------------------------------------------------------
(* Every remote is read as what it is written as. *)

LEMMA StripBounds ==
    ASSUME NEW S, NEW s \in Seq(S), NEW c, \E i \in DOMAIN s : s[i] \notin {c}
    PROVE  \E lo, hi \in 1 .. Len(s) :
              /\ lo <= hi /\ s[lo] # c /\ s[hi] # c
              /\ \A i \in 1 .. Len(s) : (i < lo \/ i > hi) => s[i] = c
              /\ Strip(s, {c}) = SubSeq(s, lo, hi)
  <1> DEFINE inner == {i \in DOMAIN s : s[i] \notin {c}}
             lo == Leftmost(inner)
             hi == Rightmost(inner)
  <1>0. Len(s) \in Nat /\ DOMAIN s = 1 .. Len(s)
    BY LenProperties
  <1>1. inner \subseteq 1 .. Len(s) /\ inner # {}
    BY <1>0
  <1>2. Strip(s, {c}) = SubSeq(s, lo, hi)
    BY <1>1 DEF Strip
  <1>3. \A i \in 1 .. Len(s) : i \in inner <=> s[i] # c
    BY <1>0
  <1> HIDE DEF inner
  <1>4. lo \in inner /\ \A i \in inner : lo <= i
    <2>1. inner \in SUBSET Nat
      BY <1>0, <1>1
    <2> QED BY <1>1, <2>1, IsLeftmost
  <1>5. hi \in inner /\ \A i \in inner : i <= hi
    <2>1. inner \in SUBSET (0 .. Len(s))
      BY <1>0, <1>1
    <2> QED BY <1>0, <1>1, <2>1, IsRightmost
  <1> HIDE DEF lo, hi
  <1>6. lo \in 1 .. Len(s) /\ hi \in 1 .. Len(s) /\ lo <= hi /\ s[lo] # c /\ s[hi] # c
    BY <1>1, <1>3, <1>4, <1>5
  <1>7. \A i \in 1 .. Len(s) : (i < lo \/ i > hi) => s[i] = c
    <2> TAKE i \in 1 .. Len(s)
    <2>1. i \in inner => lo <= i /\ i <= hi
      BY <1>4, <1>5
    <2> QED BY <1>0, <1>3, <1>6, <2>1
  <1> QED BY <1>2, <1>6, <1>7

(* What is left of a path between its slashes and in front of the suffix.  *)
LEMMA TrimmedIs ==
    ASSUME NEW path \in Seq(Tokens), NEW o \in Words, NEW n \in Words
    PROVE  Trimmed(path) = <<o, "/", n>> <=> IsPathOf(path, o, n)
  <1>0. Len(path) \in Nat /\ DOMAIN path = 1 .. Len(path)
    BY LenProperties
  <1>w. o \in Tokens /\ n \in Tokens /\ o # "/" /\ n # "/" /\ o # ".git" /\ n # ".git"
    BY WordsAreNoTokens
  <1>1. ASSUME Trimmed(path) = <<o, "/", n>> PROVE IsPathOf(path, o, n)
    <2> DEFINE s == Strip(path, {"/"})
    <2>0. <<o, "/", n>> # <<>> /\ Len(<<o, "/", n>>) = 3
      OBVIOUS
    <2>1. \E i \in DOMAIN path : path[i] \notin {"/"}
      <3>1. s = <<>> => Trimmed(path) = <<>>
        BY DEF Trimmed, TrimSuffix
      <3>2. (~ \E i \in DOMAIN path : path[i] \notin {"/"}) => s = <<>>
        BY DEF Strip
      <3> QED BY <1>1, <2>0, <3>1, <3>2
    <2>2. PICK lo, hi \in 1 .. Len(path) :
              /\ lo <= hi /\ path[lo] # "/" /\ path[hi] # "/"
              /\ \A i \in 1 .. Len(path) : (i < lo \/ i > hi) => path[i] = "/"
              /\ s = SubSeq(path, lo, hi)
      BY <2>1, StripBounds
    <2>3. /\ s \in Seq(Tokens) /\ Len(s) = hi - lo + 1
          /\ \A i \in 1 .. hi - lo + 1 : s[i] = path[lo + i - 1]
      <3>1. \A i \in lo .. hi : path[i] \in Tokens
        BY <1>0, ElementOfSeq
      <3>2. lo \in Int /\ hi \in Int /\ lo <= hi
        BY <1>0, <2>2
      <3>3. /\ SubSeq(path, lo, hi) \in Seq(Tokens)
            /\ Len(SubSeq(path, lo, hi)) = IF lo <= hi THEN hi - lo + 1 ELSE 0
            /\ \A i \in 1 .. hi - lo + 1 : SubSeq(path, lo, hi)[i] = path[lo + i - 1]
        BY <3>1, <3>2, SubSeqProperties
      <3>4. s = SubSeq(path, lo, hi)
        BY <2>2
      <3> HIDE DEF s
      <3> QED BY <3>2, <3>3, <3>4
    <2>4. Trimmed(path) = IF s # <<>> /\ Last(s) = ".git" THEN Before(Len(s), s) ELSE s
      BY DEF Trimmed, TrimSuffix
    <2> HIDE DEF s
    <2>5. /\ Len(s) = 3 \/ (Len(s) = 4 /\ s[4] = ".git")
          /\ s[1] = o /\ s[2] = "/" /\ s[3] = n
      <3>1. CASE s # <<>> /\ Last(s) = ".git"
        <4>1. <<o, "/", n>> = SubSeq(s, 1, Len(s) - 1)
          BY <1>1, <2>4, <3>1 DEF Before
        <4>2. \A i \in 1 .. Len(s) - 1 : s[i] \in Tokens
          BY <2>3, <1>0
        <4>3. Len(s) \in Nat /\ Len(s) # 0
          BY <1>0, <2>2, <2>3
        <4>4. Len(s) - 1 = 3 /\ \A i \in 1 .. 3 : <<o, "/", n>>[i] = s[i]
          <5>1. 1 \in Int /\ Len(s) - 1 \in Int
            BY <4>3
          <5>2. /\ Len(SubSeq(s, 1, Len(s) - 1)) =
                      IF 1 <= Len(s) - 1 THEN (Len(s) - 1) - 1 + 1 ELSE 0
                /\ \A i \in 1 .. (Len(s) - 1) - 1 + 1 :
                      SubSeq(s, 1, Len(s) - 1)[i] = s[1 + i - 1]
            BY <4>2, <5>1, SubSeqProperties
          <5>3. Len(s) - 1 = 3
            BY <2>0, <4>1, <4>3, <5>2
          <5>4. \A i \in 1 .. 3 : SubSeq(s, 1, 3)[i] = s[1 + i - 1]
            <6>1. \A i \in 1 .. 3 : s[i] \in Tokens
              BY <4>2, <5>3
            <6>2. \A i \in 1 .. 3 - 1 + 1 : SubSeq(s, 1, 3)[i] = s[1 + i - 1]
              BY <6>1, SubSeqProperties
            <6> QED BY <6>2
          <5>5. \A i \in 1 .. 3 : 1 + i - 1 = i
            OBVIOUS
          <5> QED BY <4>1, <5>3, <5>4, <5>5
        <4>5. s[4] = ".git"
          <5>1. Len(s) = 4
            BY <4>3, <4>4
          <5> QED BY <3>1, <5>1 DEF Last
        <4> QED BY <4>3, <4>4, <4>5
      <3>2. CASE ~ (s # <<>> /\ Last(s) = ".git")
        <4>1. s = <<o, "/", n>>
          BY <1>1, <2>4, <3>2
        <4>2. <<o, "/", n>>[1] = o /\ <<o, "/", n>>[2] = "/" /\ <<o, "/", n>>[3] = n
          OBVIOUS
        <4> QED BY <2>0, <4>1, <4>2
      <3> QED BY <3>1, <3>2
    <2>6. /\ hi = lo + 2 \/ (hi = lo + 3 /\ path[lo + 3] = ".git")
          /\ path[lo] = o /\ path[lo + 1] = "/" /\ path[lo + 2] = n
      <3>1. lo \in Int /\ hi \in Int
        BY <1>0, <2>2
      <3>2. hi - lo + 1 = 3 \/ (hi - lo + 1 = 4 /\ path[lo + 3] = ".git")
        <4>1. Len(s) = 4 => s[4] = path[lo + 4 - 1] /\ lo + 4 - 1 = lo + 3
          <5>1. hi - lo + 1 = 4 => 4 \in 1 .. hi - lo + 1 /\ lo + 4 - 1 = lo + 3
            BY <3>1
          <5> QED BY <2>3, <5>1
        <4> QED BY <2>3, <2>5, <4>1
      <3>3. /\ 1 \in 1 .. hi - lo + 1 /\ 2 \in 1 .. hi - lo + 1 /\ 3 \in 1 .. hi - lo + 1
            /\ lo + 1 - 1 = lo /\ lo + 2 - 1 = lo + 1 /\ lo + 3 - 1 = lo + 2
        BY <3>1, <3>2
      <3>4. s[1] = path[lo] /\ s[2] = path[lo + 1] /\ s[3] = path[lo + 2]
        BY <2>3, <3>3
      <3> QED BY <2>5, <3>1, <3>2, <3>4
    <2>7. \A j \in DOMAIN path \ (lo .. lo + 2) :
              path[j] = "/" \/ (j = lo + 3 /\ path[j] = ".git")
      <3> TAKE j \in DOMAIN path \ (lo .. lo + 2)
      <3>1. j < lo \/ j > hi \/ (j = lo + 3 /\ path[lo + 3] = ".git")
        BY <1>0, <2>2, <2>6
      <3> QED BY <1>0, <2>2, <3>1
    <2>8. lo \in DOMAIN path /\ lo + 2 \in DOMAIN path
      BY <1>0, <2>2, <2>6
    <2> QED BY <2>6, <2>7, <2>8 DEF IsPathOf
  <1>2. ASSUME IsPathOf(path, o, n) PROVE Trimmed(path) = <<o, "/", n>>
    <2>1. PICK k \in DOMAIN path :
              /\ k + 2 \in DOMAIN path
              /\ path[k] = o /\ path[k + 1] = "/" /\ path[k + 2] = n
              /\ \A j \in DOMAIN path \ (k .. k + 2) :
                    path[j] = "/" \/ (j = k + 3 /\ path[j] = ".git")
      BY <1>2 DEF IsPathOf
    <2>2. PICK lo, hi \in 1 .. Len(path) :
              /\ lo <= hi /\ path[lo] # "/" /\ path[hi] # "/"
              /\ \A i \in 1 .. Len(path) : (i < lo \/ i > hi) => path[i] = "/"
              /\ Strip(path, {"/"}) = SubSeq(path, lo, hi)
      <3>1. \E i \in DOMAIN path : path[i] \notin {"/"}
        BY <1>w, <2>1
      <3> QED BY <3>1, StripBounds
    <2>3. k \in 1 .. Len(path) /\ k + 2 \in 1 .. Len(path)
      BY <1>0, <2>1
    <2>4. lo = k
      <3>1. ~ (k < lo)
        BY <1>w, <2>1, <2>2, <2>3
      <3>2. lo < k => lo \in DOMAIN path \ (k .. k + 2)
        BY <1>0, <2>2, <2>3
      <3>3. ~ (lo < k)
        BY SMTT(30), <1>0, <2>1, <2>2, <2>3, <3>2
      <3> QED BY <1>0, <2>2, <2>3, <3>1, <3>3
    <2>5. hi = k + 2 \/ (hi = k + 3 /\ path[k + 3] = ".git")
      <3>1. ~ (k + 2 > hi)
        BY <1>w, <2>1, <2>2, <2>3
      <3>2. hi > k + 2 => hi \in DOMAIN path \ (k .. k + 2)
        BY <1>0, <2>2, <2>3
      <3>3. hi > k + 2 => hi = k + 3 /\ path[k + 3] = ".git"
        BY <2>1, <2>2, <3>2
      <3>4. hi \in Int /\ k \in Int
        BY <1>0, <2>2, <2>3
      <3> QED BY <3>1, <3>3, <3>4
    <2>6. CASE hi = k + 2
      <3>1. Strip(path, {"/"}) = <<o, "/", n>>
        <4>1. SubSeq(path, k, k + 2) = <<path[k], path[k + 1], path[k + 2]>>
          <5>1. k \in Int /\ k + 2 \in Int /\ (k + 2) - k = 2
            BY <1>0, <2>3
          <5> HIDE <2>1
          <5> QED BY <5>1, ThreeElements
        <4> QED BY <2>1, <2>2, <2>4, <2>6, <4>1
      <3>2. Last(<<o, "/", n>>) = n
        BY DEF Last
      <3> QED BY <1>w, <3>1, <3>2 DEF Trimmed, TrimSuffix
    <2>7. CASE hi = k + 3 /\ path[k + 3] = ".git"
      <3>1. Strip(path, {"/"}) = <<o, "/", n, ".git">>
        <4>1. SubSeq(path, k, k + 3) = <<path[k], path[k + 1], path[k + 2], path[k + 3]>>
          <5>1. k \in Int /\ k + 3 \in Int /\ (k + 3) - k = 3
            BY <1>0, <2>3
          <5> HIDE <2>1
          <5> QED BY <5>1, FourElements
        <4> QED BY <2>1, <2>2, <2>4, <2>7, <4>1
      <3> DEFINE s == <<o, "/", n, ".git">>
      <3>2. /\ s # <<>> /\ Last(s) = ".git" /\ Len(s) = 4
            /\ s[1] = o /\ s[1 + 1] = "/" /\ s[1 + 2] = n
        BY DEF Last
      <3> HIDE DEF s
      <3>3. Trimmed(path) = SubSeq(s, 1, 3)
        <4>1. Strip(path, {"/"}) = s
          BY <3>1 DEF s
        <4>2. Len(s) - 1 = 3
          BY <3>2
        <4> QED BY <3>2, <4>1, <4>2 DEF Trimmed, TrimSuffix, Before
      <3>4. SubSeq(s, 1, 3) = <<s[1], s[1 + 1], s[1 + 2]>>
        BY Bounds, ThreeElements, Zenon
      <3> QED BY <3>2, <3>3, <3>4
    <2> QED BY <2>5, <2>6, <2>7
  <1> QED BY <1>1, <1>2

LEMMA LeastOfOne ==
    ASSUME NEW i \in Nat
    PROVE  Leftmost({i}) = i
  BY DEF Leftmost

LEMMA InFront ==
    ASSUME NEW S, NEW s \in Seq(S), NEW k \in 1 .. Len(s) + 1
    PROVE  /\ Before(k, s) \in Seq(S) /\ Len(Before(k, s)) = k - 1
           /\ \A i \in 1 .. k - 1 : Before(k, s)[i] = s[i]
  <1>1. Len(s) \in Nat /\ k \in Int /\ k - 1 \in Int /\ 1 \in Int
    BY LenProperties
  <1>2. \A i \in 1 .. k - 1 : s[i] \in S
    BY <1>1, LenProperties
  <1>3. /\ Before(k, s) \in Seq(S)
        /\ Len(Before(k, s)) = IF 1 <= k - 1 THEN (k - 1) - 1 + 1 ELSE 0
        /\ \A i \in 1 .. (k - 1) - 1 + 1 : Before(k, s)[i] = s[1 + i - 1]
    BY <1>1, <1>2, SubSeqProperties DEF Before
  <1>4. Len(Before(k, s)) = k - 1 /\ (k - 1) - 1 + 1 = k - 1
    BY <1>1, <1>3
  <1>5. \A i \in 1 .. k - 1 : 1 + i - 1 = i
    BY <1>1
  <1> QED BY <1>3, <1>4, <1>5

(* A path has to be owner/name, which the suffix and slashes may surround. *)
LEMMA IdentityIs ==
    ASSUME NEW server \in Seq(Tokens), NEW path \in Seq(Tokens), NEW h \in Words,
           NEW o \in Words, NEW n \in Words
    PROVE  Identity(server, path) = RemoteIdentity(h, o, n) <=>
              /\ \E x \in Words : Lower[x] = h /\ server = <<x>>
              /\ IsPathOf(path, o, n)
  <1> DEFINE t == Trimmed(path)
             slashes == Positions("/", t)
             IsOne == \E i \in slashes : slashes = {i} /\ i \notin {1, Len(t)}
             found == [host  |-> LowerCase(server),
                       owner |-> Before(Leftmost(slashes), t),
                       name  |-> After(Leftmost(slashes), t)]
  <1>1. Identity(server, path) = IF IsOne THEN found ELSE NoRemote
    BY DEF Identity
  <1>2. NoRemote # RemoteIdentity(h, o, n)
    BY RemoteAssumption DEF RemoteIdentity
  <1>3. found = RemoteIdentity(h, o, n) <=>
           /\ LowerCase(server) = <<h>>
           /\ Before(Leftmost(slashes), t) = <<o>> /\ After(Leftmost(slashes), t) = <<n>>
    <2> HIDE DEF slashes, t
    <2> QED BY DEF RemoteIdentity
  <1>4. LowerCase(server) = <<h>> <=> \E x \in Words : Lower[x] = h /\ server = <<x>>
    <2>0. Len(server) \in Nat /\ DOMAIN server = 1 .. Len(server)
      BY LenProperties
    <2>1. ASSUME LowerCase(server) = <<h>>
          PROVE  \E x \in Words : Lower[x] = h /\ server = <<x>>
      <3>1. DOMAIN LowerCase(server) = 1 .. 1
        BY <2>1
      <3>2. 1 .. Len(server) = 1 .. 1
        BY <2>0, <3>1 DEF LowerCase
      <3>3. Len(server) = 1
        BY <2>0, <3>2
      <3>4. <<h>>[1] = IF server[1] \in Words THEN Lower[server[1]] ELSE server[1]
        BY <2>0, <2>1, <3>2 DEF LowerCase
      <3>5. server[1] \in Words /\ Lower[server[1]] = h
        BY <3>4
      <3>6. server = <<server[1]>>
        BY <2>0, <3>3
      <3> QED BY <3>5, <3>6
    <2>2. ASSUME NEW x \in Words, Lower[x] = h, server = <<x>>
          PROVE  LowerCase(server) = <<h>>
      <3>1. server[1] = x /\ DOMAIN server = 1 .. 1
        BY <2>2
      <3> QED BY <2>2, <3>1 DEF LowerCase
    <2> QED BY <2>1, <2>2
  <1>5. /\ IsOne
        /\ Before(Leftmost(slashes), t) = <<o>> /\ After(Leftmost(slashes), t) = <<n>>
        <=> t = <<o, "/", n>>
    <2>0. t \in Seq(Tokens)
      <3> DEFINE s == Strip(path, {"/"})
      <3>1. s \in Seq(Tokens)
        <4>1. CASE \E i \in DOMAIN path : path[i] \notin {"/"}
          <5>1. PICK lo, hi \in 1 .. Len(path) : s = SubSeq(path, lo, hi)
            BY ZenonT(60), <4>1, StripBounds
          <5>2. \A i \in lo .. hi : path[i] \in Tokens
            BY LenProperties
          <5>3. lo \in Int /\ hi \in Int
            BY LenProperties
          <5> HIDE DEF s
          <5> QED BY <5>1, <5>2, <5>3, SubSeqProperties
        <4>2. CASE ~ \E i \in DOMAIN path : path[i] \notin {"/"}
          BY <4>2 DEF Strip
        <4> QED BY <4>1, <4>2
      <3>2. t = IF s # <<>> /\ Last(s) = ".git" THEN Before(Len(s), s) ELSE s
        BY DEF Trimmed, TrimSuffix
      <3> HIDE DEF s, t
      <3>3. Before(Len(s), s) \in Seq(Tokens)
        <4>1. \A i \in 1 .. Len(s) - 1 : s[i] \in Tokens
          BY <3>1, LenProperties
        <4>2. Len(s) - 1 \in Int /\ 1 \in Int
          BY <3>1, LenProperties
        <4> QED BY <4>1, <4>2, SubSeqProperties DEF Before
      <3> QED BY <3>1, <3>2, <3>3
    <2> HIDE DEF t
    <2>1. ASSUME IsOne, Before(Leftmost(slashes), t) = <<o>>, After(Leftmost(slashes), t) = <<n>>
          PROVE  t = <<o, "/", n>>
      <3>1. PICK i \in slashes : slashes = {i} /\ i \notin {1, Len(t)}
        BY <2>1
      <3>3. i \in 1 .. Len(t) /\ t[i] = "/" /\ Len(t) \in Nat
        BY <2>0, <3>1, LenProperties DEF Positions
      <3> HIDE DEF slashes
      <3>2. Leftmost(slashes) = i
        <4>1. Leftmost({i}) = i
          BY <3>3, LeastOfOne
        <4> QED BY <3>1, <4>1
      <3>4. /\ Len(Before(i, t)) = i - 1
            /\ \A j \in 1 .. i - 1 : Before(i, t)[j] = t[j]
        BY <2>0, <3>3, InFront
      <3>5. /\ Len(After(i, t)) = Len(t) - i
            /\ \A j \in 1 .. Len(t) - i : After(i, t)[j] = t[i + j]
        BY <2>0, <3>3, Behind
      <3>6. i - 1 = 1 /\ Len(t) - i = 1
        BY <2>1, <3>2, <3>4, <3>5
      <3>7. i = 2 /\ Len(t) = 3
        BY <3>3, <3>6
      <3>8. t[1] = o /\ t[2] = "/" /\ t[3] = n
        <4>1. 1 \in 1 .. i - 1 /\ 1 \in 1 .. Len(t) - i /\ i + 1 = 3
          BY <3>7
        <4>2. <<o>>[1] = t[1] /\ <<n>>[1] = t[3]
          BY <2>1, <3>2, <3>4, <3>5, <4>1
        <4> QED BY <3>3, <3>7, <4>2
      <3> QED BY <2>0, <3>7, <3>8
    <2>2. ASSUME t = <<o, "/", n>>
          PROVE  /\ IsOne
                 /\ Before(Leftmost(slashes), t) = <<o>> /\ After(Leftmost(slashes), t) = <<n>>
      <3>1. Len(t) = 3 /\ DOMAIN t = 1 .. 3 /\ t[1] = o /\ t[2] = "/" /\ t[3] = n
        BY <2>2
      <3>2. slashes = {2}
        BY <3>1, WordsAreNoTokens DEF Positions
      <3> HIDE DEF slashes
      <3>3. Leftmost(slashes) = 2
        BY <3>2, LeastOfOne
      <3>4. Before(2, t) = <<o>>
        <4>1. Before(2, t) = SubSeq(t, 1, 1)
          BY DEF Before
        <4> QED BY <3>1, <4>1, OneElement
      <3>5. After(2, t) = <<n>>
        <4>1. After(2, t) = SubSeq(t, 3, 3)
          BY <3>1 DEF After
        <4> QED BY <3>1, <4>1, OneElement
      <3> QED BY <3>1, <3>2, <3>3, <3>4, <3>5
    <2> QED BY <2>1, <2>2
  <1>6. t = <<o, "/", n>> <=> IsPathOf(path, o, n)
    BY TrimmedIs
  <1> HIDE DEF t, slashes, IsOne, found
  <1> QED BY <1>1, <1>2, <1>3, <1>4, <1>5, <1>6

(* The ":" of the scheme is at start.                                      *)
IsScheme(text, start) ==
    /\ start # 0
    /\ text[start] = ":" /\ text[1] \in Words \ Ports
    /\ \A i \in 1 .. start - 1 : text[i] \in Words \cup {".git"}

LEMMA HierarchyIs ==
    ASSUME NEW text \in Seq(Tokens)
    PROVE  \E c \in 0 .. Len(text) :
              /\ Hierarchy(text) = After(c, text)
              /\ c # 0 => IsScheme(text, c)
              /\ \A start \in 1 .. Len(text) : IsScheme(text, start) => start = c
  <1> DEFINE colons == Positions(":", text)
             c == Leftmost(colons)
  <1>0. Len(text) \in Nat /\ DOMAIN text = 1 .. Len(text)
    BY LenProperties
  <1>1. \A i \in 1 .. Len(text) : i \in colons <=> text[i] = ":"
    BY <1>0 DEF Positions
  <1>2. colons \subseteq 1 .. Len(text)
    BY <1>0 DEF Positions
  <1> DEFINE Has == /\ colons # {} /\ text[1] \in Words \ Ports
                    /\ ToSet(Before(c, text)) \subseteq Words \cup {".git"}
  <1>3. Hierarchy(text) = IF Has THEN After(c, text) ELSE text
    BY DEF Hierarchy
  <1>4. colons # {} => c \in 1 .. Len(text) /\ text[c] = ":" /\ \A i \in colons : c <= i
    <2>1. colons \in SUBSET Nat
      BY <1>2
    <2> HIDE DEF colons
    <2> QED BY <1>1, <1>2, <2>1, IsLeftmost
  <1>5. ASSUME colons # {}
        PROVE  ToSet(Before(c, text)) \subseteq Words \cup {".git"} <=> \A i \in 1 .. c - 1 : text[i] \in Words \cup {".git"}
    <2>1. c \in 1 .. Len(text)
      BY <1>4, <1>5
    <2> HIDE DEF c, colons
    <2>2. c \in 1 .. Len(text) + 1 /\ c - 1 \in Nat
      BY <1>0, <2>1
    <2>3. /\ Before(c, text) \in Seq(Tokens) /\ Len(Before(c, text)) = c - 1
          /\ \A i \in 1 .. c - 1 : Before(c, text)[i] = text[i]
      BY <2>2, InFront
    <2>4. DOMAIN Before(c, text) = 1 .. c - 1
      BY <2>3, LenProperties
    <2> QED BY <2>3, <2>4 DEF ToSet
  <1>6. ASSUME NEW start \in 1 .. Len(text), IsScheme(text, start)
        PROVE  Has /\ start = c
    <2>1. start \in colons /\ \A i \in 1 .. start - 1 : i \notin colons
      BY <1>0, <1>1, <1>6, WordsAreNoTokens DEF IsScheme
    <2> HIDE DEF colons
    <2>2. start = c
      <3>1. c \in 1 .. Len(text) /\ c \in colons /\ c <= start
        BY <1>1, <1>4, <2>1
      <3> HIDE DEF c
      <3> QED BY <1>0, <2>1, <3>1
    <2>3. text[1] \in Words \ Ports /\ \A i \in 1 .. start - 1 : text[i] \in Words \cup {".git"}
      BY <1>6 DEF IsScheme
    <2> QED BY <1>5, <2>1, <2>2, <2>3
  <1>7. CASE Has
    <2>1. c \in 1 .. Len(text) /\ text[c] = ":"
      BY <1>4, <1>7
    <2>2. \A i \in 1 .. c - 1 : text[i] \in Words \cup {".git"}
      BY <1>5, <1>7
    <2>3. IsScheme(text, c)
      <3> HIDE DEF c
      <3> QED BY <1>7, <1>0, <2>1, <2>2 DEF IsScheme
    <2> HIDE DEF c, Has
    <2>4. c \in 0 .. Len(text)
      BY <1>0, <2>1
    <2> QED BY <1>3, <1>6, <1>7, <2>3, <2>4
  <1>8. CASE ~ Has
    <2>1. After(0, text) = text
      <3>1. After(0, text) = SubSeq(text, 1, Len(text))
        BY DEF After
      <3> QED BY <1>0, <3>1
    <2>2. \A start \in 1 .. Len(text) : ~ IsScheme(text, start)
      BY <1>6, <1>8
    <2>3. 0 \in 0 .. Len(text)
      BY <1>0
    <2> HIDE DEF Has
    <2> QED BY <1>3, <1>8, <2>1, <2>2, <2>3
  <1> QED BY <1>7, <1>8

(* The host of an authority.                                               *)
IsHostOf(authority, k) ==
    /\ k = 1 \/ authority[k - 1] = "@"
    /\ \/ k = Len(authority)
       \/ authority[k + 1] = ":" /\ \A i \in k + 2 .. Len(authority) : authority[i] \in Ports

LEMMA HostnameIs ==
    ASSUME NEW a \in Seq(Tokens), NEW x \in Words
    PROVE  /\ Hostname(a) \in Seq(Tokens)
           /\ Hostname(a) = <<x>> <=> \E k \in 1 .. Len(a) : a[k] = x /\ IsHostOf(a, k)
  <1> DEFINE ats == Positions("@", a) \cup {0}
             p == Rightmost(ats)
             server == After(p, a)
             colons == Positions(":", server)
             colon == Rightmost(colons)
  <1>0. Len(a) \in Nat /\ DOMAIN a = 1 .. Len(a)
    BY LenProperties
  <1>1. Hostname(a) = IF colons = {} THEN server
                      ELSE IF ToSet(After(colon, server)) \subseteq Ports THEN Before(colon, server)
                      ELSE <<>>
    BY DEF Hostname
  <1>2. /\ p \in 0 .. Len(a) /\ (p = 0 \/ a[p] = "@")
        /\ \A i \in 1 .. Len(a) : a[i] = "@" => i <= p
    <2>1. ats \in SUBSET (0 .. Len(a)) /\ ats # {}
      BY <1>0 DEF Positions
    <2>2. \A i \in 1 .. Len(a) : a[i] = "@" => i \in ats
      BY <1>0 DEF Positions
    <2>3. \A i \in ats : i = 0 \/ a[i] = "@"
      BY DEF Positions
    <2> HIDE DEF ats
    <2> QED BY <1>0, <2>1, <2>2, <2>3, IsRightmost
  <1> HIDE DEF p, ats
  <1>p. p \in Nat /\ p <= Len(a) /\ Len(a) \in Nat
    BY <1>0, <1>2
  <1>3. /\ server \in Seq(Tokens) /\ Len(server) = Len(a) - p
        /\ \A i \in 1 .. Len(a) - p : server[i] = a[p + i]
    BY <1>2, Behind
  <1> HIDE DEF server
  <1>4. /\ Len(server) \in Nat /\ DOMAIN server = 1 .. Len(server)
        /\ \A i \in 1 .. Len(server) : i \in colons <=> server[i] = ":"
        /\ colons \subseteq 1 .. Len(server)
    BY <1>3, LenProperties DEF Positions
  <1> HIDE DEF colons
  <1>5. colons # {} => /\ colon \in 1 .. Len(server) /\ server[colon] = ":"
                       /\ \A i \in colons : i <= colon
    <2>1. colons \in SUBSET (0 .. Len(server))
      BY <1>4
    <2> QED BY <1>4, <2>1, IsRightmost
  <1> HIDE DEF colon
  <1>6. ASSUME colons # {}
        PROVE  ToSet(After(colon, server)) \subseteq Ports
                  <=> \A i \in colon + 1 .. Len(server) : server[i] \in Ports
    <2>1. colon \in 0 .. Len(server) /\ colon \in Nat
      BY <1>4, <1>5, <1>6
    <2>2. /\ After(colon, server) \in Seq(Tokens) /\ Len(After(colon, server)) = Len(server) - colon
          /\ \A i \in 1 .. Len(server) - colon : After(colon, server)[i] = server[colon + i]
      BY ZenonT(60), <1>3, <2>1, Behind
    <2>3. DOMAIN After(colon, server) = 1 .. Len(server) - colon
      BY <2>2, LenProperties
    <2>4. ToSet(After(colon, server)) = {server[colon + i] : i \in 1 .. Len(server) - colon}
      BY <2>2, <2>3 DEF ToSet
    <2>5. \A i \in colon + 1 .. Len(server) : i - colon \in 1 .. Len(server) - colon /\ colon + (i - colon) = i
      BY <1>4, <2>1
    <2>6. \A i \in 1 .. Len(server) - colon : colon + i \in colon + 1 .. Len(server)
      BY <1>4, <2>1
    <2> QED BY <2>4, <2>5, <2>6
  <1>7. ASSUME Hostname(a) = <<x>>
        PROVE  \E k \in 1 .. Len(a) : a[k] = x /\ IsHostOf(a, k)
    <2>0. Len(<<x>>) = 1 /\ <<x>>[1] = x /\ <<x>> # <<>>
      OBVIOUS
    <2>1. /\ Len(server) >= 1 /\ server[1] = x
          /\ \/ Len(server) = 1
             \/ Len(server) >= 2 /\ server[2] = ":" /\ \A i \in 3 .. Len(server) : server[i] \in Ports
      <3>1. CASE colons = {}
        <4>1. server = <<x>>
          BY <1>1, <1>7, <3>1
        <4> QED BY <2>0, <4>1
      <3>2. CASE colons # {}
        <4>1. /\ ToSet(After(colon, server)) \subseteq Ports
              /\ Before(colon, server) = <<x>>
          BY <1>1, <1>7, <2>0, <3>2
        <4>2. colon \in 1 .. Len(server) + 1
          BY <1>4, <1>5, <3>2
        <4>3. /\ Len(Before(colon, server)) = colon - 1
              /\ \A i \in 1 .. colon - 1 : Before(colon, server)[i] = server[i]
          BY <1>3, <4>2, InFront
        <4>4. colon = 2
          BY <1>4, <2>0, <4>1, <4>2, <4>3
        <4>5. server[1] = x
          BY <2>0, <4>1, <4>3, <4>4
        <4> QED BY <1>4, <1>5, <1>6, <3>2, <4>1, <4>4, <4>5
      <3> QED BY <3>1, <3>2
    <2> DEFINE k == p + 1
    <2>a. p \in Nat /\ Len(a) - p >= 1
      BY <1>p, <1>3, <2>1
    <2>b. k \in 1 .. Len(a) /\ k - 1 = p /\ (k = 1 => p = 0) /\ (p = 0 => k = 1)
      BY <1>0, <2>a
    <2>2. k \in 1 .. Len(a) /\ k - 1 = p /\ (k = 1 \/ a[k - 1] = "@")
      <3> HIDE DEF k
      <3> QED BY <1>2, <2>b
    <2>3. a[k] = x
      <3>1. 1 \in 1 .. Len(a) - p
        BY <1>0, <2>a
      <3> QED BY <1>3, <2>1, <3>1
    <2>4. \/ k = Len(a)
          \/ a[k + 1] = ":" /\ \A i \in k + 2 .. Len(a) : a[i] \in Ports
      <3>1. CASE Len(server) = 1
        <4>1. Len(a) - p = 1
          BY <1>3, <3>1
        <4>2. k = Len(a)
          BY <1>p, <4>1
        <4> QED BY <4>2
      <3>2. CASE Len(server) >= 2 /\ server[2] = ":" /\ \A i \in 3 .. Len(server) : server[i] \in Ports
        <4>1. p \in Nat /\ 2 \in 1 .. Len(a) - p
          BY <1>0, <1>2, <1>3, <3>2
        <4>2. a[k + 1] = ":"
          BY <1>3, <3>2, <4>1
        <4>3. ASSUME NEW i \in k + 2 .. Len(a) PROVE a[i] \in Ports
          <5>1. i - p \in 3 .. Len(server) /\ i - p \in 1 .. Len(a) - p /\ p + (i - p) = i
            BY <1>0, <1>3, <4>1
          <5> HIDE DEF k
          <5> QED BY <1>3, <3>2, <5>1
        <4> QED BY <4>2, <4>3
      <3> QED BY <2>1, <3>1, <3>2
    <2> HIDE DEF k
    <2>5. IsHostOf(a, k)
      BY <2>2, <2>4 DEF IsHostOf
    <2> QED BY <2>2, <2>3, <2>5
  <1>8. ASSUME NEW k \in 1 .. Len(a), a[k] = x, IsHostOf(a, k)
        PROVE  Hostname(a) = <<x>>
    <2>0. x # "@" /\ x # ":" /\ \A w \in Ports : w # "@" /\ w # ":"
      BY RemoteAssumption, WordsAreNoTokens
    <2>1. p = k - 1
      <3>1. k - 1 <= p
        <4>1. k = 1 \/ (k - 1 \in 1 .. Len(a) /\ a[k - 1] = "@")
          BY <1>p, <1>8 DEF IsHostOf
        <4>2. p >= 0
          BY <1>0, <1>2
        <4>3. CASE k = 1
          BY <4>2, <4>3
        <4>4. CASE k - 1 \in 1 .. Len(a) /\ a[k - 1] = "@"
          BY <1>2, <4>4
        <4> QED BY <4>1, <4>3, <4>4
      <3>2. ASSUME p # k - 1 PROVE FALSE
        <4>1. p \in k .. Len(a) /\ a[p] = "@"
          BY <1>0, <1>2, <3>1, <3>2
        <4>2. p = k \/ p = k + 1 \/ p \in k + 2 .. Len(a)
          BY <1>0, <4>1
        <4>3. k # Len(a)
          <5>1. k = Len(a) => p = k
            BY <1>p, <4>1
          <5> QED BY <1>8, <2>0, <4>1, <5>1
        <4> QED BY <1>8, <2>0, <4>1, <4>2, <4>3 DEF IsHostOf
      <3> QED BY <3>2
    <2>2. Len(server) >= 1 /\ server[1] = x
      BY <1>0, <1>3, <1>8, <2>1
    <2>3. CASE k = Len(a)
      <3>1. Len(server) = 1
        BY <1>0, <1>3, <2>1, <2>3
      <3>2. server = <<x>>
        <4>1. Len(<<x>>) = 1 /\ <<x>>[1] = x /\ <<x>> \in Seq(Tokens)
          BY WordsAreNoTokens
        <4>2. \A i \in 1 .. Len(server) : i = 1
          BY <3>1
        <4> QED BY <1>3, <2>2, <3>1, <4>1, <4>2, SeqEqual
      <3>3. colons = {}
        BY <1>4, <2>0, <2>2, <3>1
      <3> QED BY <1>1, <3>2, <3>3
    <2>4. CASE k # Len(a)
      <3>1. Len(server) >= 2 /\ server[2] = ":" 
        <4>1. 2 \in 1 .. Len(a) - p /\ p + 2 = k + 1
          <5>1. p \in Int /\ k < Len(a) /\ k \in Int
            BY <1>p, <2>4
          <5> QED BY <1>p, <2>1, <5>1
        <4>2. Len(server) >= 2
          BY <1>3, <1>4, <4>1
        <4> QED BY <1>3, <1>8, <2>4, <4>1, <4>2 DEF IsHostOf
      <3>2. ASSUME NEW i \in 3 .. Len(server) PROVE server[i] \in Ports
        <4>1. i \in 1 .. Len(a) - p /\ p + i \in k + 2 .. Len(a)
          BY <1>0, <1>3, <2>1
        <4> QED BY <1>3, <1>8, <2>4, <4>1 DEF IsHostOf
      <3>3. colons = {2}
        <4>1. \A i \in 1 .. Len(server) : i = 1 \/ i = 2 \/ i \in 3 .. Len(server)
          BY <1>4
        <4>2. 2 \in 1 .. Len(server)
          BY <1>4, <3>1
        <4>3. \A i \in 1 .. Len(server) : server[i] = ":" <=> i = 2
          BY <2>0, <2>2, <3>1, <3>2, <4>1
        <4> QED BY <1>4, <4>2, <4>3
      <3>4. colon = 2
        BY <1>4, <1>5, <3>3
      <3>5. ToSet(After(colon, server)) \subseteq Ports
        BY <1>6, <3>2, <3>3, <3>4
      <3>6. Before(colon, server) = <<x>>
        <4>1. Before(2, server) = SubSeq(server, 1, 1)
          BY DEF Before
        <4> QED BY <2>2, <3>4, <4>1, OneElement
      <3> QED BY <1>1, <3>3, <3>5, <3>6
    <2> QED BY <2>3, <2>4
  <1>9. Hostname(a) \in Seq(Tokens)
    <2>1. colons # {} => Before(colon, server) \in Seq(Tokens)
      <3>1. colons # {} => colon \in 1 .. Len(server) + 1
        BY <1>4, <1>5
      <3> QED BY <1>3, <3>1, InFront
    <2> QED BY <1>1, <1>3, <2>1
  <1> QED BY <1>7, <1>8, <1>9

(* No path has a colon.                                                    *)
LEMMA PathHasNoColon ==
    ASSUME NEW path \in Seq(Tokens), NEW o \in Words, NEW n \in Words, IsPathOf(path, o, n)
    PROVE  \A j \in DOMAIN path : path[j] # ":"
  <1>1. PICK k \in DOMAIN path :
            /\ path[k] = o /\ path[k + 1] = "/" /\ path[k + 2] = n
            /\ \A j \in DOMAIN path \ (k .. k + 2) :
                  path[j] = "/" \/ (j = k + 3 /\ path[j] = ".git")
    BY DEF IsPathOf
  <1>2. o # ":" /\ n # ":"
    BY WordsAreNoTokens
  <1>3. ASSUME NEW j \in k .. k + 2 PROVE j = k \/ j = k + 1 \/ j = k + 2
    <2>1. k \in Int
      BY LenProperties
    <2> QED BY <2>1
  <1> QED BY <1>1, <1>2, <1>3

LEMMA BehindIndex ==
    \A l, k \in Nat : \A i \in 1 .. l :
        i > k + 1 => i - (k + 1) \in 1 .. l - (k + 1) /\ (k + 1) + (i - (k + 1)) = i
  OBVIOUS

(* What is written as user@host:path is read as such.                      *)
LEMMA AddressIsRead ==
    ASSUME NEW text \in Seq(Tokens), NEW k \in DOMAIN text, text[k] \in Words,
           IsAddress(text, k), \A j \in DOMAIN After(k + 1, text) : After(k + 1, text)[j] # ":"
    PROVE  /\ IsScp(text)
           /\ NormalizeRemote(text) = Identity(<<text[k]>>, After(k + 1, text))
  <1>0. Len(text) \in Nat /\ DOMAIN text = 1 .. Len(text)
    BY LenProperties
  <1>1. /\ k \in 2 .. Len(text) - 1 /\ text[k - 1] = "@" /\ text[k + 1] = ":"
        /\ \A i \in 1 .. k - 2 : text[i] # ":" /\ text[i] # "@"
        /\ ~ HasAuthority(After(k + 1, text))
    BY <1>0 DEF IsAddress
  <1>2. k + 1 \in 0 .. Len(text) /\ k + 1 \in 1 .. Len(text) + 1
    BY <1>0, <1>1
  <1>3. Positions(":", text) = {k + 1}
    <2>1. ASSUME NEW i \in 1 .. Len(text), text[i] = ":" PROVE i = k + 1
      <3>1. /\ After(k + 1, text) \in Seq(Tokens) /\ Len(After(k + 1, text)) = Len(text) - (k + 1)
            /\ \A j \in 1 .. Len(text) - (k + 1) : After(k + 1, text)[j] = text[(k + 1) + j]
        BY <1>2, Behind
      <3>2. DOMAIN After(k + 1, text) = 1 .. Len(text) - (k + 1)
        BY <3>1, LenProperties
      <3>3. i > k + 1 => /\ i - (k + 1) \in 1 .. Len(text) - (k + 1)
                         /\ (k + 1) + (i - (k + 1)) = i
        <4>1. k \in Nat /\ Len(text) \in Nat
          BY SMT, <1>0, <1>1
        <4> QED BY Zenon, <2>1, <4>1, BehindIndex
      <3>4. ~ (i > k + 1)
        BY <2>1, <3>1, <3>2, <3>3
      <3>5. i \in 1 .. k - 2 \/ i = k - 1 \/ i = k \/ i = k + 1
        BY <1>0, <1>1, <3>4
      <3> QED BY <1>1, <2>1, <3>5, WordsAreNoTokens
    <2> QED BY <1>0, <1>1, <1>2, <2>1 DEF Positions
  <1>4. Leftmost(Positions(":", text)) = k + 1
    BY <1>2, <1>3, LeastOfOne
  <1> DEFINE address == Before(k + 1, text)
  <1>5. /\ address \in Seq(Tokens) /\ Len(address) = k /\ DOMAIN address = 1 .. k
        /\ \A i \in 1 .. k : address[i] = text[i]
    <2>1. /\ address \in Seq(Tokens) /\ Len(address) = (k + 1) - 1
          /\ \A i \in 1 .. (k + 1) - 1 : address[i] = text[i]
      BY <1>2, InFront
    <2> HIDE DEF address
    <2>2. (k + 1) - 1 = k
      BY <1>0
    <2> QED BY <2>1, <2>2, LenProperties
  <1> HIDE DEF address
  <1>6. Positions("@", address) = {k - 1} /\ k - 1 \in Nat
    <2>1. ASSUME NEW i \in 1 .. k PROVE i \in 1 .. k - 2 \/ i = k - 1 \/ i = k
      BY <1>0
    <2>2. k - 1 \in 1 .. k
      BY <1>0, <1>1
    <2>3. \A i \in 1 .. k : address[i] = "@" <=> i = k - 1
      BY <1>1, <1>5, <2>1, <2>2, WordsAreNoTokens
    <2> QED BY <1>5, <2>2, <2>3 DEF Positions
  <1>7. Leftmost(Positions("@", address)) = k - 1
    BY <1>6, LeastOfOne
  <1>8. After(k - 1, address) = <<text[k]>> /\ <<text[k]>> # <<>>
    <2>1. After(k - 1, address) = SubSeq(address, k, k)
      <3>1. (k - 1) + 1 = k
        BY <1>0
      <3> QED BY <1>5, <3>1 DEF After
    <2>2. k \in 1 .. k /\ k \in Int
      BY <1>0
    <2> QED BY <1>5, <2>1, <2>2, OneElement
  <1>9. IsScp(text)
    <2>1. Positions("@", address) # {}
      BY <1>6
    <2> QED BY <1>1, <1>3, <1>4, <1>7, <1>8, <2>1 DEF IsScp, address
  <1> QED BY <1>4, <1>7, <1>8, <1>9 DEF NormalizeRemote, address

(* What is read as user@host:path, with a host of one word, is written so. *)
LEMMA AddressIsWritten ==
    ASSUME NEW text \in Seq(Tokens), IsScp(text)
    PROVE  \E server \in Seq(Tokens), colon \in 1 .. Len(text) :
              /\ NormalizeRemote(text) = Identity(server, After(colon, text))
              /\ \A x \in Words : server = <<x>> =>
                    colon > 1 /\ text[colon - 1] = x /\ IsAddress(text, colon - 1)
  <1> DEFINE colons == Positions(":", text)
             colon == Leftmost(colons)
             address == Before(colon, text)
             ats == Positions("@", address)
             at == Leftmost(ats)
             server == After(at, address)
  <1>0. Len(text) \in Nat /\ DOMAIN text = 1 .. Len(text)
    BY LenProperties
  <1>1. /\ colons # {} /\ (\A i \in colons : ~ HasAuthority(After(i, text)))
        /\ ats # {}
        /\ NormalizeRemote(text) = Identity(server, After(colon, text))
    BY DEF IsScp, NormalizeRemote
  <1>2. /\ colon \in 1 .. Len(text) /\ text[colon] = ":" /\ ~ HasAuthority(After(colon, text))
        /\ \A i \in 1 .. Len(text) : text[i] = ":" => colon <= i
    <2>1. \A i \in 1 .. Len(text) : i \in colons <=> text[i] = ":"
      BY <1>0 DEF Positions
    <2>2. colons \subseteq 1 .. Len(text)
      BY <1>0 DEF Positions
    <2> HIDE DEF colons
    <2>3. colons \in SUBSET Nat
      BY <2>2
    <2>4. colon \in colons /\ \A i \in colons : colon <= i
      BY <1>1, <2>3, IsLeftmost
    <2> HIDE DEF colon
    <2> QED BY <1>1, <2>1, <2>2, <2>4
  <1> HIDE DEF colons, colon
  <1>3. /\ address \in Seq(Tokens) /\ Len(address) = colon - 1 /\ DOMAIN address = 1 .. colon - 1
        /\ \A i \in 1 .. colon - 1 : address[i] = text[i]
    <2>1. colon \in 1 .. Len(text) + 1
      BY <1>0, <1>2
    <2>2. /\ address \in Seq(Tokens) /\ Len(address) = colon - 1
          /\ \A i \in 1 .. colon - 1 : address[i] = text[i]
      BY <2>1, InFront
    <2> HIDE DEF address
    <2> QED BY <2>2, LenProperties
  <1> HIDE DEF address
  <1>4. /\ at \in 1 .. colon - 1 /\ text[at] = "@"
        /\ \A i \in 1 .. colon - 1 : text[i] = "@" => at <= i
    <2>1. \A i \in 1 .. colon - 1 : i \in ats <=> text[i] = "@"
      BY <1>3 DEF Positions
    <2>2. ats \subseteq 1 .. colon - 1
      BY <1>3 DEF Positions
    <2> HIDE DEF ats
    <2>3. ats \in SUBSET Nat
      BY <2>2
    <2>4. at \in ats /\ \A i \in ats : at <= i
      BY <1>1, <2>3, IsLeftmost
    <2> HIDE DEF at
    <2> QED BY <2>1, <2>2, <2>4
  <1> HIDE DEF at, ats
  <1>5. /\ server \in Seq(Tokens) /\ Len(server) = (colon - 1) - at
        /\ \A i \in 1 .. (colon - 1) - at : server[i] = address[at + i]
    <2>1. at \in 0 .. Len(address)
      BY <1>0, <1>2, <1>3, <1>4
    <2>2. /\ server \in Seq(Tokens) /\ Len(server) = Len(address) - at
          /\ \A i \in 1 .. Len(address) - at : server[i] = address[at + i]
      BY ZenonT(60), <1>3, <2>1, Behind
    <2> HIDE DEF server
    <2> QED BY <1>3, <2>2
  <1> HIDE DEF server
  <1>6. ASSUME NEW x \in Words, server = <<x>>
        PROVE  colon > 1 /\ text[colon - 1] = x /\ IsAddress(text, colon - 1)
    <2>0. Len(<<x>>) = 1 /\ <<x>>[1] = x
      OBVIOUS
    <2>1. colon \in Nat /\ at \in Nat
      BY <1>0, <1>2, <1>4
    <2>2. (colon - 1) - at = 1
      BY <1>5, <1>6, <2>0
    <2>3. at = (colon - 1) - 1 /\ at + 1 = colon - 1 /\ colon > 1 /\ (colon - 1) + 1 = colon
          /\ at = colon - 2 /\ colon - 1 > 1
      BY <1>4, <2>1, <2>2
    <2>4. text[colon - 1] = x
      <3>1. 1 \in 1 .. (colon - 1) - at /\ colon - 1 \in 1 .. colon - 1
        BY <2>1, <2>2, <2>3
      <3>2. server[1] = address[colon - 1]
        BY <1>5, <2>3, <3>1
      <3> QED BY <1>3, <1>6, <2>0, <3>1, <3>2
    <2>5. colon - 1 < Len(text)
      BY <1>0, <1>2
    <2>6. \A i \in 1 .. (colon - 1) - 2 : text[i] # ":" /\ text[i] # "@"
      <3> TAKE i \in 1 .. (colon - 1) - 2
      <3>1. i < at /\ i < colon /\ i \in 1 .. Len(text) /\ i \in 1 .. colon - 1
        BY <1>0, <1>2, <2>1, <2>3
      <3> QED BY <1>2, <1>4, <2>1, <3>1
    <2> QED BY <1>2, <1>4, <2>3, <2>4, <2>5, <2>6 DEF IsAddress
  <1> QED BY <1>1, <1>2, <1>5, <1>6

(* What is between the slashes of a URL and its path.                      *)
LEMMA PathBegins ==
    ASSUME NEW n \in Nat, NEW c \in Nat, c + 2 <= n, NEW slash \in Nat, slash >= 1,
           slash <= (n - (c + 2)) + 1
    PROVE  /\ (c + 2) + (slash - 1) = n <=> slash = (n - (c + 2)) + 1
           /\ (c + 2) + (slash - 1) \in c + 2 .. n
           /\ ((c + 2) + (slash - 1)) - (c + 2) = slash - 1
           /\ ((c + 2) + (slash - 1)) + 1 = (c + 2) + slash
  OBVIOUS

Rest(text, c) == After(2, After(c, text))

Slash(text, c) == Leftmost(Positions("/", Rest(text, c)) \cup {Len(Rest(text, c)) + 1})

(* The authority of a URL ends at end, where its path begins.              *)
IsAuthority(authority, path, text, c, end) ==
    /\ authority \in Seq(Tokens)
    /\ Len(authority) = end - (c + 2)
    /\ \A i \in 1 .. end - (c + 2) : authority[i] = text[(c + 2) + i]
    /\ path = After(end, text)
    /\ \A i \in c + 3 .. end : text[i] # "/"
    /\ end # Len(text) => text[end + 1] = "/"

LEMMA AuthorityIs ==
    ASSUME NEW text \in Seq(Tokens), NEW c \in 0 .. Len(text), HasAuthority(After(c, text))
    PROVE  LET rest  == Rest(text, c)
               slash == Slash(text, c)
           IN  /\ c + 2 <= Len(text) /\ text[c + 1] = "/" /\ text[c + 2] = "/"
               /\ \E end \in c + 2 .. Len(text) :
                     IsAuthority(Before(slash, rest), SubSeq(rest, slash, Len(rest)), text, c, end)
  <1>0. Len(text) \in Nat /\ DOMAIN text = 1 .. Len(text) /\ c \in Nat
    BY LenProperties
  <1> DEFINE rest == Rest(text, c)
             slash == Slash(text, c)
             behind == After(c, text)
  <1>1. /\ behind \in Seq(Tokens) /\ Len(behind) = Len(text) - c
        /\ \A i \in 1 .. Len(text) - c : behind[i] = text[c + i]
    BY Behind
  <1>2. Len(behind) >= 2 /\ behind[1] = "/" /\ behind[2] = "/"
    BY DEF HasAuthority
  <1>3. rest = After(c + 2, text)
    <2>1. 2 \in 0 .. Len(text) - c
      BY <1>0, <1>1, <1>2
    <2> QED BY <2>1, BehindBehind DEF Rest
  <1>a. slash = Leftmost(Positions("/", rest) \cup {Len(rest) + 1})
    BY DEF Slash
  <1> HIDE DEF behind, rest, slash
  <1>4. c + 2 <= Len(text) /\ text[c + 1] = "/" /\ text[c + 2] = "/"
    <2>1. Len(text) - c >= 2
      BY <1>1, <1>2
    <2>2. 1 \in 1 .. Len(text) - c /\ 2 \in 1 .. Len(text) - c
      BY <1>0, <2>1
    <2> QED BY <1>0, <1>1, <1>2, <2>1, <2>2
  <1>5. c + 2 \in 0 .. Len(text) /\ Len(text) - (c + 2) \in Nat
    BY <1>0, <1>4
  <1>6. /\ rest \in Seq(Tokens) /\ Len(rest) = Len(text) - (c + 2)
        /\ \A i \in 1 .. Len(text) - (c + 2) : rest[i] = text[(c + 2) + i]
    BY <1>3, <1>5, Behind
  <1>7. Len(rest) \in Nat /\ DOMAIN rest = 1 .. Len(rest)
    BY <1>6, LenProperties
  <1>8. /\ slash \in 1 .. Len(rest) + 1
        /\ slash # Len(rest) + 1 => rest[slash] = "/"
        /\ \A i \in 1 .. Len(rest) : rest[i] = "/" => slash <= i
    <2> DEFINE ends == Positions("/", rest) \cup {Len(rest) + 1}
    <2>1. /\ ends \subseteq 1 .. Len(rest) + 1 /\ ends # {}
          /\ \A i \in 1 .. Len(rest) : i \in ends <=> rest[i] = "/"
      BY <1>7 DEF Positions
    <2> HIDE DEF ends
    <2>2. ends \in SUBSET Nat
      BY <1>7, <2>1
    <2>3. slash \in ends /\ \A i \in ends : slash <= i
      <3>1. slash = Leftmost(ends)
        BY <1>a DEF ends
      <3>2. Leftmost(ends) \in ends /\ \A i \in ends : Leftmost(ends) <= i
        BY <2>1, <2>2, IsLeftmost
      <3> QED BY <3>1, <3>2
    <2>4. slash \in 1 .. Len(rest) + 1 /\ (slash # Len(rest) + 1 => slash \in 1 .. Len(rest))
      <3>1. slash \in 1 .. Len(rest) + 1
        BY <2>1, <2>3
      <3> QED BY <1>7, <3>1
    <2> QED BY <2>1, <2>3, <2>4
  <1>b. /\ slash \in Nat /\ slash >= 1 /\ slash <= (Len(text) - (c + 2)) + 1
        /\ (c + 2) + (slash - 1) = Len(text) <=> slash = (Len(text) - (c + 2)) + 1
        /\ (c + 2) + (slash - 1) \in c + 2 .. Len(text)
        /\ ((c + 2) + (slash - 1)) - (c + 2) = slash - 1
        /\ ((c + 2) + (slash - 1)) + 1 = (c + 2) + slash
    <2>1. slash \in Nat /\ slash >= 1 /\ slash <= (Len(text) - (c + 2)) + 1
      BY <1>5, <1>6, <1>8
    <2>2. Len(text) \in Nat /\ c \in Nat /\ c + 2 <= Len(text)
      BY <1>0, <1>4
    <2> HIDE <1>0, <1>1, <1>2, <1>3, <1>4, <1>5, <1>6, <1>7, <1>8
    <2> QED BY <2>1, <2>2, PathBegins
  <1> DEFINE end == (c + 2) + (slash - 1)
  <1>9. /\ slash \in Nat /\ slash >= 1 /\ slash <= (Len(text) - (c + 2)) + 1
        /\ end \in c + 2 .. Len(text) /\ end - (c + 2) = slash - 1
        /\ (end # Len(text) => slash # Len(rest) + 1) /\ end + 1 = (c + 2) + slash
    BY <1>6, <1>b
  <1>10. /\ Before(slash, rest) \in Seq(Tokens)
         /\ Len(Before(slash, rest)) = end - (c + 2)
         /\ \A i \in 1 .. end - (c + 2) : Before(slash, rest)[i] = text[(c + 2) + i]
    <2>1. /\ Before(slash, rest) \in Seq(Tokens) /\ Len(Before(slash, rest)) = slash - 1
          /\ \A i \in 1 .. slash - 1 : Before(slash, rest)[i] = rest[i]
      BY <1>6, <1>8, InFront
    <2>2. \A i \in 1 .. slash - 1 : i \in 1 .. Len(text) - (c + 2)
      BY <1>5, <1>9
    <2> HIDE DEF end
    <2> QED BY <1>6, <1>9, <2>1, <2>2
  <1>11. SubSeq(rest, slash, Len(rest)) = After(end, text)
    <2>1. slash - 1 \in 0 .. Len(text) - (c + 2) /\ (slash - 1) + 1 = slash
      BY <1>5, <1>9
    <2>2. After(slash - 1, After(c + 2, text)) = After(end, text)
      BY <1>5, <2>1, BehindBehind
    <2>3. After(slash - 1, rest) = SubSeq(rest, slash, Len(rest))
      BY <2>1 DEF After
    <2> QED BY <1>3, <2>2, <2>3
  <1>12. \A i \in c + 3 .. end : text[i] # "/"
    <2> TAKE i \in c + 3 .. end
    <2>1. /\ i - (c + 2) \in 1 .. Len(text) - (c + 2) /\ i - (c + 2) < slash
          /\ (c + 2) + (i - (c + 2)) = i
      BY <1>0, <1>5, <1>9
    <2>2. rest[i - (c + 2)] = text[i]
      BY <1>6, <2>1
    <2>3. rest[i - (c + 2)] # "/"
      <3>1. i - (c + 2) \in 1 .. Len(rest) /\ ~ (slash <= i - (c + 2))
        BY <1>6, <1>9, <2>1
      <3> QED BY <1>8, <3>1
    <2> QED BY <2>2, <2>3
  <1>13. end # Len(text) => text[end + 1] = "/"
    <2>1. slash # Len(rest) + 1 => slash \in 1 .. Len(text) - (c + 2)
      <3> HIDE DEF end
      <3>1. slash \in 1 .. Len(rest) + 1
        BY <1>8
      <3>2. slash # Len(rest) + 1 => slash \in 1 .. Len(rest)
        BY <1>7, <3>1
      <3> QED BY <1>6, <3>2
    <2> HIDE DEF end
    <2> QED BY <1>6, <1>8, <1>9, <2>1
  <1> HIDE DEF end
  <1>14. IsAuthority(Before(slash, rest), SubSeq(rest, slash, Len(rest)), text, c, end)
    BY <1>10, <1>11, <1>12, <1>13 DEF IsAuthority
  <1> USE DEF rest, slash
  <1> QED BY <1>4, <1>9, <1>14

LEMMA IdentityOf ==
    ASSUME NEW x \in Words, NEW path \in Seq(Tokens), NEW o \in Words, NEW n \in Words,
           IsPathOf(path, o, n)
    PROVE  Identity(<<x>>, path) = RemoteIdentity(Lower[x], o, n)
  <1>1. <<x>> \in Seq(Tokens) /\ Lower[x] \in Words
    BY RemoteAssumption, WordsAreNoTokens
  <1>2. Identity(<<x>>, path) = RemoteIdentity(Lower[x], o, n) <=>
            /\ \E y \in Words : Lower[y] = Lower[x] /\ <<x>> = <<y>>
            /\ IsPathOf(path, o, n)
    <2>1. \A server \in Seq(Tokens) : \A h \in Words :
              Identity(server, path) = RemoteIdentity(h, o, n) <=>
                 /\ \E y \in Words : Lower[y] = h /\ server = <<y>>
                 /\ IsPathOf(path, o, n)
      BY IdentityIs
    <2> QED BY <1>1, <2>1, Zenon
  <1> QED BY <1>2, Zenon

LEMMA HostAt ==
    ASSUME NEW n \in Nat, NEW c \in Nat, NEW i \in Nat, NEW end \in Nat, i >= 1,
           i <= end - (c + 2), end <= n, end # n
    PROVE  /\ (c + 2) + i \in 1 .. n
           /\ c \in 0 .. ((c + 2) + i) - 3
           /\ end \in (c + 2) + i .. n - 1
  OBVIOUS

LEMMA SchemeIsNoAddress ==
    ASSUME NEW text \in Seq(Tokens), NEW start \in 1 .. Len(text), text[start] = ":",
           HasAuthority(After(start, text))
    PROVE  ~ IsScp(text)
  <1>1. start \in Positions(":", text)
    BY LenProperties DEF Positions
  <1> QED BY <1>1 DEF IsScp

LEMMA TwoSlashes ==
    ASSUME NEW text \in Seq(Tokens), NEW c \in 0 .. Len(text) - 2,
           text[c + 1] = "/", text[c + 2] = "/"
    PROVE  HasAuthority(After(c, text))
  <1>1. Len(text) \in Nat /\ c \in 0 .. Len(text) /\ Len(text) - c >= 2
    BY LenProperties
  <1>2. /\ Len(After(c, text)) = Len(text) - c
        /\ \A i \in 1 .. Len(text) - c : After(c, text)[i] = text[c + i]
    BY <1>1, Behind
  <1>3. 1 \in 1 .. Len(text) - c /\ 2 \in 1 .. Len(text) - c
    BY SMTT(30), <1>1
  <1> QED BY <1>1, <1>2, <1>3 DEF HasAuthority

(* What is read as a URL is written as one, and the other way round.       *)
LEMMA URLIsRead ==
    ASSUME NEW text \in Seq(Tokens), ~ IsScp(text),
           NEW h \in Words, NEW o \in Words, NEW n \in Words,
           NormalizeRemote(text) = RemoteIdentity(h, o, n)
    PROVE  IsRemoteOf(text, h, o, n)
  <1>0. Len(text) \in Nat /\ DOMAIN text = 1 .. Len(text)
    BY LenProperties
  <1>1. PICK c \in 0 .. Len(text) :
            /\ Hierarchy(text) = After(c, text)
            /\ c # 0 => IsScheme(text, c)
    BY HierarchyIs
  <1> DEFINE rest == After(2, Hierarchy(text))
             slash == Leftmost(Positions("/", rest) \cup {Len(rest) + 1})
             authority == Before(slash, rest)
  <1>2. NormalizeRemote(text) =
            IF HasAuthority(Hierarchy(text)) /\ Hostname(authority) # <<>>
            THEN Identity(Hostname(authority), SubSeq(rest, slash, Len(rest)))
            ELSE NoRemote
    BY DEF NormalizeRemote
  <1>3. NoRemote # RemoteIdentity(h, o, n)
    BY RemoteAssumption DEF RemoteIdentity
  <1>4. /\ HasAuthority(After(c, text))
        /\ Identity(Hostname(authority), SubSeq(rest, slash, Len(rest))) = RemoteIdentity(h, o, n)
    BY <1>1, <1>2, <1>3
  <1>5. rest = After(2, After(c, text))
    BY <1>1
  <1>6. /\ c + 2 <= Len(text) /\ text[c + 1] = "/" /\ text[c + 2] = "/"
        /\ \E end \in c + 2 .. Len(text) :
              IsAuthority(authority, SubSeq(rest, slash, Len(rest)), text, c, end)
    <2>1. rest = Rest(text, c) /\ slash = Slash(text, c) /\ authority = Before(slash, rest)
      BY <1>5 DEF Rest, Slash
    <2> HIDE DEF rest, slash, authority
    <2> QED BY <1>4, <1>5, <2>1, AuthorityIs
  <1> HIDE DEF rest, slash, authority
  <1>7. PICK end \in c + 2 .. Len(text) :
              /\ authority \in Seq(Tokens)
              /\ Len(authority) = end - (c + 2)
              /\ \A i \in 1 .. end - (c + 2) : authority[i] = text[(c + 2) + i]
              /\ SubSeq(rest, slash, Len(rest)) = After(end, text)
              /\ \A i \in c + 3 .. end : text[i] # "/"
              /\ end # Len(text) => text[end + 1] = "/"
    BY <1>6 DEF IsAuthority
  <1>8. end \in 0 .. Len(text) /\ c \in Nat /\ end \in Nat /\ c + 2 <= end
    BY <1>0
  <1>9. After(end, text) \in Seq(Tokens) /\ Len(After(end, text)) = Len(text) - end
    BY <1>8, Behind
  <1>10. Hostname(authority) \in Seq(Tokens)
    <2>1. PICK x \in Words : TRUE
      OBVIOUS
    <2> QED BY <1>7, HostnameIs
  <1>11. /\ \E x \in Words : Lower[x] = h /\ Hostname(authority) = <<x>>
         /\ IsPathOf(After(end, text), o, n)
    BY <1>4, <1>7, <1>9, <1>10, IdentityIs
  <1>12. PICK x \in Words : Lower[x] = h /\ Hostname(authority) = <<x>>
    BY <1>11
  <1>13. PICK i \in 1 .. Len(authority) : authority[i] = x /\ IsHostOf(authority, i)
    BY <1>7, <1>12, HostnameIs
  <1>14. end # Len(text)
    <2>1. SUFFICES ASSUME end = Len(text) PROVE FALSE
      OBVIOUS
    <2>2. DOMAIN After(end, text) = {}
      <3>1. DOMAIN After(end, text) = 1 .. Len(text) - end
        BY <1>9, LenProperties
      <3> QED BY <1>8, <2>1, <3>1
    <2> QED BY <1>11, <2>2 DEF IsPathOf
  <1>15. /\ i \in Nat /\ i >= 1 /\ i <= end - (c + 2) /\ i \in 1 .. end - (c + 2)
         /\ end \in Nat /\ end <= Len(text) /\ end # Len(text)
    <2>1. i \in Nat /\ i >= 1 /\ i <= end - (c + 2)
      BY <1>7, <1>8
    <2>2. end \in Nat /\ end <= Len(text)
      BY SMTT(30), <1>0, <1>8
    <2> QED BY <1>8, <1>14, <2>1, <2>2
  <1> DEFINE k == (c + 2) + i
  <1>k. k \in 1 .. Len(text) /\ c \in 0 .. k - 3 /\ end \in k .. Len(text) - 1
    BY Zenon, <1>0, <1>8, <1>15, HostAt
  <1>16. text[k] = x
    BY <1>7, <1>13, <1>15, <1>k
  <1>17. IsURL(text, c, k, end)
    <2>1. c # 0 => /\ text[c] = ":" /\ text[1] \in Words \ Ports
                   /\ \A j \in 1 .. c - 1 : text[j] \in Words \cup {".git"}
      BY <1>1 DEF IsScheme
    <2>2. \A j \in c + 3 .. k - 1 : text[j] # "/"
      <3> TAKE j \in c + 3 .. k - 1
      <3>1. j \in c + 3 .. end
        BY <1>8, <1>15, <1>k
      <3> QED BY <1>7, <3>1
    <2>3. k = c + 3 \/ text[k - 1] = "@"
      <3>1. CASE i = 1
        BY <1>8, <3>1
      <3>2. CASE i # 1
        <4>1. i - 1 \in 1 .. end - (c + 2) /\ (c + 2) + (i - 1) = k - 1
          BY <1>8, <1>15, <1>k, <3>2
        <4>2. authority[i - 1] = "@"
          BY <1>13, <3>2 DEF IsHostOf
        <4> HIDE DEF k
        <4> QED BY <1>7, <4>1, <4>2
      <3> QED BY <3>1, <3>2
    <2>4. k = end \/ (text[k + 1] = ":" /\ \A j \in k + 2 .. end : text[j] \in Ports)
      <3>1. CASE i = Len(authority)
        <4>1. i = end - (c + 2)
          BY <1>7, <3>1
        <4>2. k = end
          BY <1>8, <1>15, <1>k, <4>1
        <4> QED BY <4>2
      <3>2. CASE i # Len(authority)
        <4>1. /\ authority[i + 1] = ":"
              /\ \A j \in i + 2 .. Len(authority) : authority[j] \in Ports
          BY <1>13, <3>2 DEF IsHostOf
        <4>2. i + 1 \in 1 .. end - (c + 2) /\ (c + 2) + (i + 1) = k + 1
          <5>1. i # end - (c + 2)
            BY <1>7, <3>2
          <5> QED BY <1>8, <1>15, <1>k, <5>1
        <4>3. ASSUME NEW j \in k + 2 .. end PROVE text[j] \in Ports
          <5>1. /\ j - (c + 2) \in i + 2 .. end - (c + 2) /\ j - (c + 2) \in 1 .. end - (c + 2)
                /\ (c + 2) + (j - (c + 2)) = j
            BY <1>8, <1>15, <1>k
          <5> HIDE DEF k
          <5> QED BY <1>7, <4>1, <5>1
        <4> HIDE DEF k
        <4>4. text[k + 1] = ":"
          BY <1>7, <4>1, <4>2
        <4> QED BY <4>3, <4>4
      <3> QED BY <3>1, <3>2
    <2> HIDE DEF k
    <2> QED BY <1>6, <1>7, <1>14, <2>1, <2>2, <2>3, <2>4 DEF IsURL
  <1> HIDE DEF k
  <1> QED BY Zenon, <1>0, <1>11, <1>12, <1>15, <1>k, <1>16, <1>17 DEF IsRemoteOf

LEMMA URLIsWritten ==
    ASSUME NEW text \in Seq(Tokens), ~ IsScp(text),
           NEW o \in Words, NEW n \in Words,
           NEW k \in DOMAIN text, text[k] \in Words, NEW start \in 0 .. k - 3,
           NEW end \in k .. Len(text) - 1, IsURL(text, start, k, end),
           IsPathOf(After(end, text), o, n)
    PROVE  NormalizeRemote(text) = RemoteIdentity(Lower[text[k]], o, n)
  <1>0. Len(text) \in Nat /\ DOMAIN text = 1 .. Len(text)
    BY LenProperties
  <1>a. /\ k \in Nat /\ start \in Nat /\ end \in Nat /\ start + 3 <= k /\ k <= end
        /\ end + 1 <= Len(text)
    BY <1>0
  <1>1. /\ start # 0 => IsScheme(text, start)
        /\ text[start + 1] = "/" /\ text[start + 2] = "/"
        /\ \A i \in start + 3 .. k - 1 : text[i] # "/"
        /\ k = start + 3 \/ text[k - 1] = "@"
        /\ k = end \/ (text[k + 1] = ":" /\ \A i \in k + 2 .. end : text[i] \in Ports)
        /\ text[end + 1] = "/"
    BY DEF IsURL, IsScheme
  <1>2. Hierarchy(text) = After(start, text)
    <2>1. PICK c \in 0 .. Len(text) :
            /\ Hierarchy(text) = After(c, text)
            /\ c # 0 => IsScheme(text, c)
            /\ \A i \in 1 .. Len(text) : IsScheme(text, i) => i = c
      BY HierarchyIs
    <2>2. start = c
      <3>1. CASE start # 0
        <4>1. start \in 1 .. Len(text)
          BY <1>a, <3>1
        <4> QED BY <1>1, <2>1, <3>1, <4>1
      <3>2. CASE start = 0
        <4>1. text[1] = "/"
          BY <1>1, <3>2
        <4> QED BY <2>1, <3>2, <4>1, WordsAreNoTokens DEF IsScheme
      <3> QED BY <3>1, <3>2
    <2> QED BY <2>1, <2>2
  <1>3. start \in 0 .. Len(text) /\ HasAuthority(After(start, text))
    <2>1. start \in 0 .. Len(text) /\ start \in 0 .. Len(text) - 2
      BY <1>a
    <2> QED BY <1>1, <2>1, TwoSlashes
  <1> DEFINE rest == After(2, Hierarchy(text))
             slash == Leftmost(Positions("/", rest) \cup {Len(rest) + 1})
             authority == Before(slash, rest)
  <1>4. NormalizeRemote(text) =
            IF HasAuthority(Hierarchy(text)) /\ Hostname(authority) # <<>>
            THEN Identity(Hostname(authority), SubSeq(rest, slash, Len(rest)))
            ELSE NoRemote
    BY DEF NormalizeRemote
  <1>5. rest = After(2, After(start, text))
    BY <1>2
  <1>6. \E last \in start + 2 .. Len(text) :
              IsAuthority(authority, SubSeq(rest, slash, Len(rest)), text, start, last)
    <2>1. rest = Rest(text, start) /\ slash = Slash(text, start) /\ authority = Before(slash, rest)
      BY <1>5 DEF Rest, Slash
    <2> HIDE DEF rest, slash, authority
    <2> QED BY <1>3, <1>5, <2>1, AuthorityIs
  <1> HIDE DEF rest, slash, authority
  <1>7. PICK last \in start + 2 .. Len(text) :
              /\ authority \in Seq(Tokens)
              /\ Len(authority) = last - (start + 2)
              /\ \A i \in 1 .. last - (start + 2) : authority[i] = text[(start + 2) + i]
              /\ SubSeq(rest, slash, Len(rest)) = After(last, text)
              /\ \A i \in start + 3 .. last : text[i] # "/"
              /\ last # Len(text) => text[last + 1] = "/"
    BY <1>6 DEF IsAuthority
  <1>8. \A i \in start + 3 .. end : text[i] # "/"
    <2> TAKE i \in start + 3 .. end
    <2>1. i \in start + 3 .. k - 1 \/ i = k \/ (k # end /\ (i = k + 1 \/ i \in k + 2 .. end))
      BY SMTT(30), <1>a
    <2>2. \A w \in Ports : w \in Words
      BY RemoteAssumption
    <2> QED BY <1>1, <2>1, <2>2, WordsAreNoTokens
  <1>9. last = end
    <2>1. last \in Nat
      BY <1>a
    <2>2. ~ (last > end)
      <3>1. last > end => end + 1 \in start + 3 .. last
        BY <1>a, <2>1
      <3> QED BY <1>1, <1>7, <3>1
    <2>3. ~ (last < end)
      <3>1. last < end => last + 1 \in start + 3 .. end /\ last # Len(text)
        BY <1>a, <2>1
      <3> QED BY <1>7, <1>8, <3>1
    <2> QED BY <1>a, <2>1, <2>2, <2>3
  <1>10. /\ authority \in Seq(Tokens) /\ Len(authority) = end - (start + 2)
         /\ \A i \in 1 .. end - (start + 2) : authority[i] = text[(start + 2) + i]
         /\ SubSeq(rest, slash, Len(rest)) = After(end, text)
    BY <1>7, <1>9
  <1> DEFINE i == k - (start + 2)
  <1>11. /\ i \in Nat /\ i >= 1 /\ i <= end - (start + 2) /\ (start + 2) + i = k
         /\ i \in 1 .. end - (start + 2) /\ (i = 1 <=> k = start + 3)
         /\ (i = end - (start + 2) <=> k = end)
    BY SMTT(30), <1>a
  <1> HIDE DEF i
  <1>12. authority[i] = text[k] /\ i \in 1 .. Len(authority)
    BY <1>10, <1>11
  <1>13. IsHostOf(authority, i)
    <2>1. i = 1 \/ authority[i - 1] = "@"
      <3>1. CASE i # 1
        <4>1. i - 1 \in 1 .. end - (start + 2) /\ (start + 2) + (i - 1) = k - 1
          BY <1>a, <1>11, <3>1
        <4> QED BY <1>1, <1>10, <1>11, <3>1, <4>1
      <3> QED BY <3>1
    <2>2. \/ i = Len(authority)
          \/ authority[i + 1] = ":" /\ \A j \in i + 2 .. Len(authority) : authority[j] \in Ports
      <3>1. CASE k = end
        BY <1>10, <1>11, <3>1
      <3>2. CASE k # end
        <4>1. text[k + 1] = ":" /\ \A j \in k + 2 .. end : text[j] \in Ports
          BY <1>1, <3>2
        <4>2. i + 1 \in 1 .. end - (start + 2) /\ (start + 2) + (i + 1) = k + 1
          BY <1>a, <1>11, <3>2
        <4>3. authority[i + 1] = ":"
          BY <1>10, <4>1, <4>2
        <4>4. ASSUME NEW j \in i + 2 .. Len(authority) PROVE authority[j] \in Ports
          <5>1. j \in i + 2 .. end - (start + 2)
            BY <1>10
          <5>2. j \in 1 .. end - (start + 2) /\ (start + 2) + j \in k + 2 .. end
            BY <1>a, <1>11, <5>1
          <5> QED BY <1>10, <4>1, <5>2
        <4> QED BY <4>3, <4>4
      <3> QED BY <3>1, <3>2
    <2> QED BY <2>1, <2>2 DEF IsHostOf
  <1>14. Hostname(authority) = <<text[k]>>
    BY <1>10, <1>12, <1>13, HostnameIs
  <1>15. NormalizeRemote(text) = Identity(<<text[k]>>, After(end, text))
    <2>1. <<text[k]>> # <<>>
      OBVIOUS
    <2> QED BY <1>2, <1>3, <1>4, <1>10, <1>14, <2>1
  <1>16. Identity(<<text[k]>>, After(end, text)) = RemoteIdentity(Lower[text[k]], o, n)
    <2>2. After(end, text) \in Seq(Tokens)
      <3>1. end \in 0 .. Len(text)
        BY <1>a
      <3> QED BY <3>1, Behind
    <2> QED BY <2>2, IdentityOf
  <1> QED BY <1>15, <1>16

(* A text is read as the remote of a repository exactly when it is written *)
(* as one, however long it is (NormalizeRemote).                           *)
THEOREM EveryRemoteRead ==
    ASSUME NEW text \in Seq(Tokens), NEW h \in Words, NEW o \in Words, NEW n \in Words
    PROVE  NormalizeRemote(text) = RemoteIdentity(h, o, n) <=> IsRemoteOf(text, h, o, n)
  <1>0. Len(text) \in Nat /\ DOMAIN text = 1 .. Len(text)
    BY LenProperties
  <1>1. ASSUME NormalizeRemote(text) = RemoteIdentity(h, o, n)
        PROVE  IsRemoteOf(text, h, o, n)
    <2>1. CASE IsScp(text)
      <3>1. PICK server \in Seq(Tokens), colon \in 1 .. Len(text) :
                /\ NormalizeRemote(text) = Identity(server, After(colon, text))
                /\ \A x \in Words : server = <<x>> =>
                      colon > 1 /\ text[colon - 1] = x /\ IsAddress(text, colon - 1)
        BY <2>1, AddressIsWritten
      <3>2. After(colon, text) \in Seq(Tokens)
        <4>1. colon \in 0 .. Len(text)
          BY <1>0
        <4> QED BY <4>1, Behind
      <3>a. /\ \E x \in Words : Lower[x] = h /\ server = <<x>>
            /\ IsPathOf(After(colon, text), o, n)
        <4>1. Identity(server, After(colon, text)) = RemoteIdentity(h, o, n)
          BY <1>1, <3>1
        <4> QED BY <3>2, <4>1, IdentityIs
      <3>3. PICK x \in Words : Lower[x] = h /\ server = <<x>> /\ IsPathOf(After(colon, text), o, n)
        BY <3>a
      <3>4. /\ colon - 1 \in 1 .. Len(text) /\ (colon - 1) + 1 = colon
            /\ text[colon - 1] = x /\ IsAddress(text, colon - 1)
        BY <1>0, <3>1, <3>3
      <3> QED BY <1>0, <3>3, <3>4 DEF IsRemoteOf
    <2>2. CASE ~ IsScp(text)
      BY <1>1, <2>2, URLIsRead
    <2> QED BY <2>1, <2>2
  <1>2. ASSUME IsRemoteOf(text, h, o, n)
        PROVE  NormalizeRemote(text) = RemoteIdentity(h, o, n)
    <2>1. PICK k \in DOMAIN text :
              /\ text[k] \in Words /\ Lower[text[k]] = h
              /\ \/ IsAddress(text, k) /\ IsPathOf(After(k + 1, text), o, n)
                 \/ \E start \in 0 .. k - 3 : \E end \in k .. Len(text) - 1 :
                       /\ IsURL(text, start, k, end) /\ (start = 0 => ~ IsScp(text))
                       /\ IsPathOf(After(end, text), o, n)
      BY <1>2 DEF IsRemoteOf
    <2>2. CASE IsAddress(text, k) /\ IsPathOf(After(k + 1, text), o, n)
      <3>1. After(k + 1, text) \in Seq(Tokens)
        <4>1. k + 1 \in 0 .. Len(text)
          BY <1>0, <2>2 DEF IsAddress
        <4> QED BY <4>1, Behind
      <3>2. NormalizeRemote(text) = Identity(<<text[k]>>, After(k + 1, text))
        BY <2>1, <2>2, <3>1, PathHasNoColon, AddressIsRead
      <3>3. Identity(<<text[k]>>, After(k + 1, text)) = RemoteIdentity(Lower[text[k]], o, n)
        BY <2>1, <2>2, <3>1, IdentityOf
      <3> QED BY <2>1, <3>2, <3>3
    <2>3. CASE \E start \in 0 .. k - 3 : \E end \in k .. Len(text) - 1 :
                       /\ IsURL(text, start, k, end) /\ (start = 0 => ~ IsScp(text))
                       /\ IsPathOf(After(end, text), o, n)
      <3>1. PICK start \in 0 .. k - 3 : \E end \in k .. Len(text) - 1 :
                       /\ IsURL(text, start, k, end) /\ (start = 0 => ~ IsScp(text))
                       /\ IsPathOf(After(end, text), o, n)
        BY <2>3
      <3>2. PICK end \in k .. Len(text) - 1 :
                       /\ IsURL(text, start, k, end) /\ (start = 0 => ~ IsScp(text))
                       /\ IsPathOf(After(end, text), o, n)
        BY <3>1
      <3>3. ~ IsScp(text)
        <4>1. CASE start = 0
          BY <3>2, <4>1
        <4>2. CASE start # 0
          <5>1. start \in 1 .. Len(text) /\ start \in 0 .. Len(text) - 2
            BY <1>0, <4>2
          <5>2. text[start] = ":" /\ text[start + 1] = "/" /\ text[start + 2] = "/"
            BY <3>2, <4>2 DEF IsURL
          <5>3. HasAuthority(After(start, text))
            BY <5>1, <5>2, TwoSlashes
          <5> QED BY <5>1, <5>2, <5>3, SchemeIsNoAddress
        <4> QED BY <4>1, <4>2
      <3> QED BY <2>1, <3>2, <3>3, URLIsWritten
    <2> QED BY <2>1, <2>2, <2>3
  <1> QED BY <1>1, <1>2

LEMMA BehindPrefix ==
    ASSUME NEW S, NEW p \in Seq(S), NEW q \in Seq(S)
    PROVE  /\ p \o q \in Seq(S) /\ Len(p \o q) = Len(p) + Len(q)
           /\ \A i \in 1 .. Len(p) : (p \o q)[i] = p[i]
           /\ \A i \in 1 .. Len(q) : (p \o q)[Len(p) + i] = q[i]
           /\ After(Len(p), p \o q) = q
  <1>1. Len(p) \in Nat /\ Len(q) \in Nat
    BY LenProperties
  <1>2. /\ p \o q \in Seq(S) /\ Len(p \o q) = Len(p) + Len(q)
        /\ \A i \in 1 .. Len(p) + Len(q) : (p \o q)[i] = IF i <= Len(p) THEN p[i] ELSE q[i - Len(p)]
    BY ConcatProperties
  <1> DEFINE s == p \o q
  <1> HIDE DEF s
  <1>3. /\ s \in Seq(S) /\ Len(s) = Len(p) + Len(q)
        /\ \A i \in 1 .. Len(p) + Len(q) : s[i] = IF i <= Len(p) THEN p[i] ELSE q[i - Len(p)]
    BY <1>2 DEF s
  <1>4. \A i \in 1 .. Len(p) : s[i] = p[i]
    <2>1. \A i \in 1 .. Len(p) : i \in 1 .. Len(p) + Len(q) /\ i <= Len(p)
      BY <1>1
    <2> QED BY <1>3, <2>1
  <1>5. \A i \in 1 .. Len(q) : s[Len(p) + i] = q[i]
    <2>1. \A i \in 1 .. Len(q) : /\ Len(p) + i \in 1 .. Len(p) + Len(q) /\ ~ (Len(p) + i <= Len(p))
                                 /\ (Len(p) + i) - Len(p) = i
      BY <1>1
    <2> QED BY <1>3, <2>1
  <1>6. After(Len(p), s) = q
    <2>1. Len(p) \in 0 .. Len(s) /\ Len(s) - Len(p) = Len(q)
      BY <1>1, <1>3
    <2>2. /\ After(Len(p), s) \in Seq(S) /\ Len(After(Len(p), s)) = Len(s) - Len(p)
          /\ \A i \in 1 .. Len(s) - Len(p) : After(Len(p), s)[i] = s[Len(p) + i]
      BY <1>3, <2>1, Behind
    <2> QED BY <1>5, <2>1, <2>2, SeqEqual
  <1> QED BY <1>3, <1>4, <1>5, <1>6 DEF s

LEMMA OneBefore ==
    ASSUME NEW n \in Nat, NEW k \in Nat, NEW j \in 1 .. n + 1, j # 1, j \notin k + 1 .. (k + 1) + 2
    PROVE  /\ j - 1 \in 1 .. n /\ j - 1 \notin k .. k + 2 /\ (j - 1) + 1 = j
           /\ j - 1 = k + 3 => j = (k + 1) + 3
  OBVIOUS

(* A path stays one with a slash in front of it or behind it.              *)
LEMMA SlashInFront ==
    ASSUME NEW path \in Seq(Tokens), NEW o, NEW n, IsPathOf(path, o, n)
    PROVE  <<"/">> \o path \in Seq(Tokens) /\ IsPathOf(<<"/">> \o path, o, n)
  <1>1. /\ <<"/">> \in Seq(Tokens) /\ Len(<<"/">>) = 1 /\ <<"/">>[1] = "/"
    BY DEF Tokens
  <1> DEFINE s == <<"/">> \o path
  <1>2. /\ s \in Seq(Tokens) /\ Len(s) = 1 + Len(path)
        /\ \A i \in 1 .. 1 : s[i] = <<"/">>[i]
        /\ \A i \in 1 .. Len(path) : s[1 + i] = path[i]
    BY <1>1, BehindPrefix
  <1> HIDE DEF s
  <1>3. /\ Len(path) \in Nat /\ DOMAIN path = 1 .. Len(path) /\ DOMAIN s = 1 .. Len(path) + 1
        /\ s[1] = "/" /\ \A i \in 1 .. Len(path) : s[i + 1] = path[i]
    <2>1. Len(path) \in Nat /\ DOMAIN path = 1 .. Len(path) /\ DOMAIN s = 1 .. Len(s)
      BY <1>2, LenProperties
    <2>2. 1 \in 1 .. 1 /\ \A i \in 1 .. Len(path) : i + 1 = 1 + i
      BY <2>1
    <2>3. s[1] = "/"
      BY <1>1, <1>2, <2>2
    <2> QED BY <1>2, <2>1, <2>2, <2>3
  <1>4. PICK k \in DOMAIN path :
            /\ k + 2 \in DOMAIN path
            /\ path[k] = o /\ path[k + 1] = "/" /\ path[k + 2] = n
            /\ \A j \in DOMAIN path \ (k .. k + 2) :
                  path[j] = "/" \/ (j = k + 3 /\ path[j] = ".git")
    BY DEF IsPathOf
  <1>5. /\ k \in Nat /\ k + 1 \in DOMAIN s /\ k + 3 \in DOMAIN s /\ (k + 1) + 2 = k + 3
        /\ (k + 1) + 1 = (k + 2) - 1 + 1 /\ (k + 1) + 3 = k + 4
        /\ k \in 1 .. Len(path) /\ k + 1 \in 1 .. Len(path) /\ k + 2 \in 1 .. Len(path)
        /\ (k + 1) + 1 = k + 2 /\ (k + 2) + 1 = k + 3
    BY <1>3, <1>4
  <1>6. s[k + 1] = o /\ s[(k + 1) + 1] = "/" /\ s[(k + 1) + 2] = n
    BY SMTT(30), <1>3, <1>4, <1>5
  <1>7. ASSUME NEW j \in DOMAIN s \ (k + 1 .. (k + 1) + 2)
        PROVE  s[j] = "/" \/ (j = (k + 1) + 3 /\ s[j] = ".git")
    <2>1. CASE j = 1
      BY <1>3, <2>1
    <2>2. CASE j # 1
      <3>1. /\ j - 1 \in DOMAIN path \ (k .. k + 2) /\ (j - 1) + 1 = j /\ j - 1 \in 1 .. Len(path)
            /\ j - 1 = k + 3 => j = (k + 1) + 3
        <4>1. Len(path) \in Nat /\ k \in Nat /\ j \in 1 .. Len(path) + 1 /\ j \notin k + 1 .. (k + 1) + 2
          BY <1>3, <1>5
        <4>2. /\ j - 1 \in 1 .. Len(path) /\ j - 1 \notin k .. k + 2 /\ (j - 1) + 1 = j
              /\ j - 1 = k + 3 => j = (k + 1) + 3
          <5> HIDE <1>2, <1>3, <1>4, <1>5, <1>6
          <5> QED BY <2>2, <4>1, OneBefore
        <4> QED BY <1>3, <4>2
      <3>2. s[j] = path[j - 1]
        BY <1>3, <3>1
      <3> QED BY <1>4, <3>1, <3>2
    <2> QED BY <2>1, <2>2
  <1>8. IsPathOf(s, o, n)
    BY <1>5, <1>6, <1>7 DEF IsPathOf
  <1> QED BY <1>2, <1>8 DEF s

LEMMA SlashBehind ==
    ASSUME NEW path \in Seq(Tokens), NEW o, NEW n, IsPathOf(path, o, n)
    PROVE  path \o <<"/">> \in Seq(Tokens) /\ IsPathOf(path \o <<"/">>, o, n)
  <1>1. /\ <<"/">> \in Seq(Tokens) /\ Len(<<"/">>) = 1 /\ <<"/">>[1] = "/"
    BY DEF Tokens
  <1> DEFINE s == path \o <<"/">>
  <1>2. /\ s \in Seq(Tokens) /\ Len(s) = Len(path) + 1
        /\ \A i \in 1 .. Len(path) : s[i] = path[i]
        /\ \A i \in 1 .. 1 : s[Len(path) + i] = <<"/">>[i]
    BY <1>1, BehindPrefix
  <1> HIDE DEF s
  <1>3. /\ Len(path) \in Nat /\ DOMAIN path = 1 .. Len(path) /\ DOMAIN s = 1 .. Len(path) + 1
        /\ s[Len(path) + 1] = "/"
    <2>1. Len(path) \in Nat /\ DOMAIN path = 1 .. Len(path) /\ DOMAIN s = 1 .. Len(s)
      BY <1>2, LenProperties
    <2>2. s[Len(path) + 1] = "/"
      BY <1>1, <1>2
    <2> QED BY <1>2, <2>1, <2>2
  <1>4. PICK k \in DOMAIN path :
            /\ k + 2 \in DOMAIN path
            /\ path[k] = o /\ path[k + 1] = "/" /\ path[k + 2] = n
            /\ \A j \in DOMAIN path \ (k .. k + 2) :
                  path[j] = "/" \/ (j = k + 3 /\ path[j] = ".git")
    BY DEF IsPathOf
  <1>5. /\ k \in 1 .. Len(path) /\ k + 1 \in 1 .. Len(path) /\ k + 2 \in 1 .. Len(path)
        /\ k \in DOMAIN s /\ k + 2 \in DOMAIN s
    BY <1>3, <1>4
  <1>6. s[k] = o /\ s[k + 1] = "/" /\ s[k + 2] = n
    BY <1>2, <1>4, <1>5
  <1>7. ASSUME NEW j \in DOMAIN s \ (k .. k + 2)
        PROVE  s[j] = "/" \/ (j = k + 3 /\ s[j] = ".git")
    <2>1. j = Len(path) + 1 \/ j \in 1 .. Len(path)
      BY <1>3
    <2> QED BY <1>2, <1>3, <1>4, <2>1
  <1>8. IsPathOf(s, o, n)
    BY <1>5, <1>6, <1>7 DEF IsPathOf
  <1> QED BY <1>2, <1>8 DEF s

LEMMA PathsAre ==
    ASSUME NEW o \in Words, NEW n \in Words, NEW path \in PathsOf(o, n)
    PROVE  path \in Seq(Tokens) /\ Len(path) >= 3 /\ path[1] = o /\ IsPathOf(path, o, n)
  <1>1. PICK suffix \in Optional(<<".git">>), slash \in Optional(<<"/">>) :
            path = <<o, "/", n>> \o suffix \o slash
    BY SMTT(30) DEF PathsOf
  <1> DEFINE p == <<o, "/", n>> \o suffix
  <1>2. p \in Seq(Tokens) /\ Len(p) >= 3 /\ p[1] = o /\ IsPathOf(p, o, n)
    <2>1. o \in Tokens /\ n \in Tokens /\ "/" \in Tokens /\ ".git" \in Tokens
      BY WordsAreNoTokens DEF Tokens
    <2>2. CASE suffix = <<>>
      <3>1. p = <<o, "/", n>>
        <4>1. <<o, "/", n>> \in Seq(Tokens)
          BY <2>1
        <4> QED BY <2>2, <4>1, ConcatEmptySeq
      <3> DEFINE q == <<o, "/", n>>
      <3>0. p = q
        BY <3>1
      <3>2. /\ q \in Seq(Tokens) /\ Len(q) = 3 /\ DOMAIN q = 1 .. 3
            /\ q[1] = o /\ q[2] = "/" /\ q[3] = n
        BY <2>1
      <3> HIDE DEF q
      <3>3. IsPathOf(q, o, n)
        <4>1. 1 \in 1 .. 3 /\ 1 + 2 = 3 /\ 3 \in 1 .. 3 /\ 1 + 1 = 2 /\ (1 .. 3) \ (1 .. 1 + 2) = {}
          OBVIOUS
        <4> QED BY <3>2, <4>1 DEF IsPathOf
      <3> HIDE DEF p
      <3> QED BY <3>0, <3>2, <3>3
    <2>3. CASE suffix = <<".git">>
      <3>1. p = <<o, "/", n, ".git">>
        <4> DEFINE front == <<o, "/", n>>
                   git == <<".git">>
                   q == <<o, "/", n, ".git">>
        <4>1. /\ front \in Seq(Tokens) /\ Len(front) = 3
              /\ front[1] = o /\ front[2] = "/" /\ front[3] = n
              /\ git \in Seq(Tokens) /\ Len(git) = 1 /\ git[1] = ".git"
              /\ q \in Seq(Tokens) /\ Len(q) = 4
              /\ q[1] = o /\ q[2] = "/" /\ q[3] = n /\ q[4] = ".git"
          BY <2>1
        <4>2. p = front \o git
          BY <2>3
        <4> HIDE DEF front, git, q, p
        <4>3. /\ p \in Seq(Tokens) /\ Len(p) = 3 + 1
              /\ \A i \in 1 .. 3 : p[i] = front[i]
              /\ \A i \in 1 .. 1 : p[3 + i] = git[i]
          <5>1. front \in Seq(Tokens) /\ git \in Seq(Tokens)
            BY <4>1
          <5>2. /\ p \in Seq(Tokens) /\ Len(p) = Len(front) + Len(git)
                /\ \A i \in 1 .. Len(front) : p[i] = front[i]
                /\ \A i \in 1 .. Len(git) : p[Len(front) + i] = git[i]
            BY <4>2, <5>1, BehindPrefix
          <5>3. Len(front) = 3 /\ Len(git) = 1
            BY <4>1
          <5> QED BY <5>2, <5>3
        <4>4. \A i \in 1 .. Len(q) : p[i] = q[i]
          <5>1. p[1] = o /\ p[2] = "/" /\ p[3] = n /\ p[4] = ".git"
            <6>1. 1 \in 1 .. 3 /\ 2 \in 1 .. 3 /\ 3 \in 1 .. 3 /\ 1 \in 1 .. 1 /\ 3 + 1 = 4
              OBVIOUS
            <6> QED BY <4>1, <4>3, <6>1
          <5>2. \A i \in 1 .. 4 : i = 1 \/ i = 2 \/ i = 3 \/ i = 4
            OBVIOUS
          <5> QED BY <4>1, <5>1, <5>2
        <4> HIDE <2>1, <2>3
        <4>5. Len(p) = Len(q) /\ p \in Seq(Tokens) /\ q \in Seq(Tokens)
          <5>1. 3 + 1 = 4
            OBVIOUS
          <5> QED BY <4>1, <4>3, <5>1
        <4>6. p = q
          BY <4>4, <4>5, SeqEqual
        <4> QED BY <4>6 DEF q
      <3> DEFINE q == <<o, "/", n, ".git">>
      <3>0. p = q
        BY <3>1
      <3>2. /\ q \in Seq(Tokens) /\ Len(q) = 4 /\ DOMAIN q = 1 .. 4
            /\ q[1] = o /\ q[2] = "/" /\ q[3] = n /\ q[4] = ".git"
        BY <2>1
      <3> HIDE DEF q
      <3>3. IsPathOf(q, o, n)
        <4>1. /\ 1 \in 1 .. 4 /\ 1 + 2 = 3 /\ 3 \in 1 .. 4 /\ 1 + 1 = 2 /\ 1 + 3 = 4
              /\ \A j \in (1 .. 4) \ (1 .. 1 + 2) : j = 4
          OBVIOUS
        <4> QED BY <3>2, <4>1 DEF IsPathOf
      <3> HIDE DEF p
      <3> QED BY <3>0, <3>2, <3>3
    <2> QED BY <2>2, <2>3 DEF Optional
  <1> HIDE DEF p
  <1>3. CASE slash = <<>>
    <2>1. path = p
      BY <1>1, <1>2, <1>3, ConcatEmptySeq DEF p
    <2> QED BY <1>2, <2>1
  <1>4. CASE slash = <<"/">>
    <2>1. path = p \o <<"/">>
      BY <1>1, <1>4 DEF p
    <2>2. path \in Seq(Tokens) /\ IsPathOf(path, o, n)
      BY <1>2, <2>1, SlashBehind
    <2>3. Len(path) >= 3 /\ path[1] = o
      <3>1. <<"/">> \in Seq(Tokens) /\ Len(<<"/">>) = 1
        BY DEF Tokens
      <3>2. Len(path) = Len(p) + 1 /\ \A i \in 1 .. Len(p) : path[i] = p[i]
        BY <1>2, <2>1, <3>1, BehindPrefix
      <3>3. Len(p) \in Nat /\ 1 \in 1 .. Len(p)
        BY <1>2, LenProperties
      <3> QED BY <1>2, <3>2, <3>3
    <2> QED BY <2>2, <2>3
  <1> QED BY <1>3, <1>4 DEF Optional

(* What stands in front of the path of a URL: its scheme and authority,    *)
(* the host at k.                                                          *)
IsURLPrefix(prefix, k) ==
    /\ k \in {5, 7} /\ k <= Len(prefix)
    /\ prefix[1] \in Words \ Ports /\ prefix[2] = ":"
    /\ prefix[3] = "/" /\ prefix[4] = "/"
    /\ k = 7 => prefix[5] \in Words /\ prefix[6] = "@"
    /\ prefix[k] \in Words
    /\ \/ Len(prefix) = k
       \/ Len(prefix) = k + 2 /\ prefix[k + 1] = ":" /\ prefix[k + 2] \in Ports

LEMMA URLSpelled ==
    ASSUME NEW prefix \in Seq(Tokens), NEW k, IsURLPrefix(prefix, k),
           NEW o \in Words, NEW n \in Words, NEW path \in Seq(Tokens), IsPathOf(path, o, n)
    PROVE  NormalizeRemote(prefix \o (<<"/">> \o path)) = RemoteIdentity(Lower[prefix[k]], o, n)
  <1> DEFINE rest == <<"/">> \o path
             text == prefix \o rest
             end == Len(prefix)
  <1>0. end \in Nat /\ k \in {5, 7} /\ k <= end
    BY LenProperties DEF IsURLPrefix
  <1>1. rest \in Seq(Tokens) /\ IsPathOf(rest, o, n) /\ rest[1] = "/" /\ Len(rest) >= 1
    <2>1. <<"/">> \in Seq(Tokens) /\ Len(<<"/">>) = 1 /\ <<"/">>[1] = "/"
      BY DEF Tokens
    <2>2. Len(rest) = 1 + Len(path) /\ \A i \in 1 .. 1 : rest[i] = <<"/">>[i]
      BY <2>1, BehindPrefix
    <2>3. Len(path) \in Nat
      BY LenProperties
    <2> HIDE DEF rest
    <2>4. rest[1] = "/" /\ Len(rest) >= 1
      BY <2>1, <2>2, <2>3
    <2> QED BY <2>4, SlashInFront DEF rest
  <1> HIDE DEF rest
  <1>2. /\ text \in Seq(Tokens) /\ Len(text) = Len(prefix) + Len(rest)
        /\ \A i \in 1 .. Len(prefix) : text[i] = prefix[i]
        /\ \A i \in 1 .. Len(rest) : text[Len(prefix) + i] = rest[i]
        /\ After(Len(prefix), text) = rest
    BY <1>1, BehindPrefix
  <1> HIDE DEF text
  <1>3. Len(rest) \in Nat /\ Len(text) \in Nat /\ DOMAIN text = 1 .. Len(text)
    BY <1>1, <1>2, LenProperties
  <1>4. /\ Len(text) = end + Len(rest)
        /\ \A i \in 1 .. end : text[i] = prefix[i]
        /\ text[end + 1] = "/"
        /\ After(end, text) = rest
    <2>1. 1 \in 1 .. Len(rest)
      BY <1>1, <1>3
    <2> QED BY <1>1, <1>2, <2>1
  <1> HIDE DEF end
  <1>5. /\ k \in 1 .. Len(text) /\ 2 \in 0 .. k - 3 /\ end \in k .. Len(text) - 1
        /\ 2 \in 1 .. Len(text) /\ 2 \in 0 .. Len(text) - 2 /\ k >= 5 /\ end >= 5
    BY <1>0, <1>1, <1>3, <1>4
  <1>6. /\ text[1] \in Words \ Ports /\ text[2] = ":" /\ text[2 + 1] = "/" /\ text[2 + 2] = "/"
        /\ text[k] = prefix[k] /\ text[k] \in Words
    <2>1. 1 \in 1 .. end /\ 2 \in 1 .. end /\ 3 \in 1 .. end /\ 4 \in 1 .. end /\ k \in 1 .. end
          /\ 2 + 1 = 3 /\ 2 + 2 = 4
      BY <1>0
    <2> QED BY <1>4, <2>1 DEF IsURLPrefix
  <1>7. /\ \A i \in 2 + 3 .. k - 1 : text[i] # "/"
        /\ k = 2 + 3 \/ text[k - 1] = "@"
    <2>1. CASE k = 5
      BY <2>1
    <2>2. CASE k = 7
      <3>1. prefix[5] \in Words /\ prefix[6] = "@"
        BY <2>2 DEF IsURLPrefix
      <3>2. 5 \in 1 .. end /\ 6 \in 1 .. end /\ k - 1 = 6
            /\ \A i \in 2 + 3 .. k - 1 : i = 5 \/ i = 6
        BY <1>0, <2>2
      <3> QED BY <1>4, <3>1, <3>2, WordsAreNoTokens
    <2> QED BY <1>0, <2>1, <2>2
  <1>8. k = end \/ (text[k + 1] = ":" /\ \A i \in k + 2 .. end : text[i] \in Ports)
    <2>1. CASE end # k
      <3>1. end = k + 2 /\ prefix[k + 1] = ":" /\ prefix[k + 2] \in Ports
        BY <2>1 DEF IsURLPrefix, end
      <3>2. k + 1 \in 1 .. end /\ k + 2 \in 1 .. end /\ \A i \in k + 2 .. end : i = k + 2
        BY <1>0, <3>1
      <3> QED BY <1>4, <3>1, <3>2
    <2> QED BY <2>1
  <1>9. \A i \in 1 .. 2 - 1 : text[i] \in Words
    <2>1. \A i \in 1 .. 2 - 1 : i = 1
      OBVIOUS
    <2> QED BY <1>6, <2>1
  <1>10. IsURL(text, 2, k, end)
    BY <1>4, <1>6, <1>7, <1>8, <1>9 DEF IsURL
  <1>11. ~ IsScp(text)
    <2>1. HasAuthority(After(2, text))
      BY <1>2, <1>5, <1>6, TwoSlashes
    <2> QED BY <1>2, <1>5, <1>6, <2>1, SchemeIsNoAddress
  <1>12. NormalizeRemote(text) = RemoteIdentity(Lower[text[k]], o, n)
    <2>1. k \in DOMAIN text /\ text[k] \in Words /\ text \in Seq(Tokens)
      BY <1>2, <1>3, <1>5, <1>6
    <2>2. \A start \in 0 .. k - 3 : \A e \in k .. Len(text) - 1 :
              IsURL(text, start, k, e) /\ IsPathOf(After(e, text), o, n)
                => NormalizeRemote(text) = RemoteIdentity(Lower[text[k]], o, n)
      BY <1>11, <2>1, URLIsWritten
    <2>3. IsPathOf(After(end, text), o, n)
      BY <1>1, <1>4
    <2>4. 2 \in 0 .. k - 3 /\ end \in k .. Len(text) - 1
      BY <1>5
    <2> QED BY <1>10, <2>2, <2>3, <2>4, Zenon
  <1> QED BY <1>6, <1>12 DEF text, rest

(* What stands in front of the path of user@host:path.                     *)
LEMMA AddressSpelled ==
    ASSUME NEW prefix \in Seq(Tokens), Len(prefix) = 4, prefix[1] \in Words, prefix[2] = "@",
           prefix[3] \in Words, prefix[4] = ":",
           NEW o \in Words, NEW n \in Words, NEW path \in Seq(Tokens), IsPathOf(path, o, n),
           Len(path) >= 2, path[1] = o \/ path[2] = o
    PROVE  NormalizeRemote(prefix \o path) = RemoteIdentity(Lower[prefix[3]], o, n)
  <1> DEFINE text == prefix \o path
  <1>1. /\ text \in Seq(Tokens) /\ Len(text) = Len(prefix) + Len(path)
        /\ \A i \in 1 .. Len(prefix) : text[i] = prefix[i]
        /\ After(Len(prefix), text) = path
    BY ZenonT(60), BehindPrefix
  <1> HIDE DEF text
  <1>2. Len(path) \in Nat /\ Len(text) \in Nat /\ DOMAIN text = 1 .. Len(text)
    BY <1>1, LenProperties
  <1>3. /\ Len(text) = 4 + Len(path) /\ After(3 + 1, text) = path
        /\ text[1] \in Words /\ text[2] = "@" /\ text[3] = prefix[3] /\ text[4] = ":"
    <2>1. 1 \in 1 .. 4 /\ 2 \in 1 .. 4 /\ 3 \in 1 .. 4 /\ 4 \in 1 .. 4 /\ 3 + 1 = 4
      OBVIOUS
    <2> QED BY <1>1, <2>1
  <1>4. ~ HasAuthority(path)
    BY WordsAreNoTokens DEF HasAuthority
  <1>5. IsAddress(text, 3)
    <2>1. /\ 3 > 1 /\ 3 < Len(text) /\ 3 - 1 = 2 /\ 3 + 1 = 4
          /\ \A i \in 1 .. 3 - 2 : i = 1
      BY <1>2, <1>3
    <2> QED BY <1>3, <1>4, <2>1, WordsAreNoTokens DEF IsAddress
  <1>6. 3 \in DOMAIN text /\ text[3] \in Words
    BY <1>2, <1>3
  <1>7. NormalizeRemote(text) = Identity(<<text[3]>>, path)
    <2>1. \A j \in DOMAIN path : path[j] # ":"
      BY PathHasNoColon
    <2> QED BY <1>1, <1>3, <1>5, <1>6, <2>1, AddressIsRead
  <1>8. Identity(<<text[3]>>, path) = RemoteIdentity(Lower[text[3]], o, n)
    BY <1>6, IdentityOf
  <1> QED BY <1>3, <1>7, <1>8 DEF text

LEMMA ShortTexts ==
    /\ \A user \in UserParts :
          /\ user \in Seq(Tokens)
          /\ Len(user) = 0 \/ (Len(user) = 2 /\ user[1] \in Words /\ user[2] = "@")
    /\ \A port \in PortParts :
          /\ port \in Seq(Tokens)
          /\ Len(port) = 0 \/ (Len(port) = 2 /\ port[1] = ":" /\ port[2] \in Ports)
    /\ \A start \in Schemes :
          start \in Seq(Tokens) /\ Len(start) = 2 /\ start[1] \in Words \ Ports /\ start[2] = ":"
    /\ \A start \in Users :
          start \in Seq(Tokens) /\ Len(start) = 1 /\ start[1] \in Words
    /\ \A x \in Words : <<x>> \in Seq(Tokens) /\ Len(<<x>>) = 1 /\ <<x>>[1] = x
    /\ <<"/">> \in Seq(Tokens) /\ Len(<<"/">>) = 1 /\ <<"/">>[1] = "/"
    /\ <<"/", "/">> \in Seq(Tokens) /\ Len(<<"/", "/">>) = 2
    /\ <<"/", "/">>[1] = "/" /\ <<"/", "/">>[2] = "/"
  <1>1. /\ RemoteWords \subseteq Words /\ Ports \subseteq Words /\ Words \subseteq Tokens
        /\ ":" \in Tokens /\ "@" \in Tokens /\ "/" \in Tokens
    BY RemoteAssumption DEF Tokens
  <1>2. /\ <<>> \in Seq(Tokens) /\ Len(<<>>) = 0
    OBVIOUS
  <1>3. ASSUME NEW u \in RemoteWords
        PROVE  /\ <<u, "@">> \in Seq(Tokens) /\ Len(<<u, "@">>) = 2
               /\ <<u, "@">>[1] \in Words /\ <<u, "@">>[2] = "@"
    BY <1>1
  <1>4. ASSUME NEW p \in Ports
        PROVE  /\ <<":", p>> \in Seq(Tokens) /\ Len(<<":", p>>) = 2
               /\ <<":", p>>[1] = ":" /\ <<":", p>>[2] \in Ports
    BY <1>1
  <1>5. ASSUME NEW w \in RemoteWords \ Ports
        PROVE  /\ <<w, ":">> \in Seq(Tokens) /\ Len(<<w, ":">>) = 2
               /\ <<w, ":">>[1] \in Words \ Ports /\ <<w, ":">>[2] = ":"
    BY <1>1
  <1>6. ASSUME NEW x \in Words
        PROVE  <<x>> \in Seq(Tokens) /\ Len(<<x>>) = 1 /\ <<x>>[1] = x
    BY <1>1
  <1>7. \A user \in UserParts :
          /\ user \in Seq(Tokens)
          /\ Len(user) = 0 \/ (Len(user) = 2 /\ user[1] \in Words /\ user[2] = "@")
    BY <1>2, <1>3 DEF UserParts
  <1>8. \A port \in PortParts :
          /\ port \in Seq(Tokens)
          /\ Len(port) = 0 \/ (Len(port) = 2 /\ port[1] = ":" /\ port[2] \in Ports)
    BY <1>2, <1>4 DEF PortParts
  <1>9. \A start \in Schemes :
          start \in Seq(Tokens) /\ Len(start) = 2 /\ start[1] \in Words \ Ports /\ start[2] = ":"
    BY <1>5 DEF Schemes
  <1>10. \A start \in Users :
          start \in Seq(Tokens) /\ Len(start) = 1 /\ start[1] \in Words
    BY <1>1, <1>6 DEF Users
  <1>11. /\ <<"/">> \in Seq(Tokens) /\ Len(<<"/">>) = 1 /\ <<"/">>[1] = "/"
         /\ <<"/", "/">> \in Seq(Tokens) /\ Len(<<"/", "/">>) = 2
         /\ <<"/", "/">>[1] = "/" /\ <<"/", "/">>[2] = "/"
    BY <1>1
  <1> QED BY <1>6, <1>7, <1>8, <1>9, <1>10, <1>11

LEMMA PrefixLengths ==
    ASSUME NEW user \in {0, 2}, NEW port \in {0, 2}
    PROVE  /\ user + 5 \in {5, 7}
           /\ user + 5 <= (user + 5) + port
           /\ (user + 5) + port = user + 5 \/ ((user + 5) + port = (user + 5) + 2 /\ port = 2)
  OBVIOUS

(* The scheme and the authority of a URL.                                  *)
URLPrefix(start, user, x, port) == start \o (<<"/", "/">> \o user \o <<x>> \o port)

LEMMA URLPrefixIs ==
    ASSUME NEW start \in Schemes, NEW user \in UserParts, NEW x \in Words, NEW port \in PortParts
    PROVE  LET prefix == URLPrefix(start, user, x, port)
           IN  /\ prefix \in Seq(Tokens)
               /\ \E k : IsURLPrefix(prefix, k) /\ prefix[k] = x
  <1> DEFINE A == <<"/", "/">>
             H == <<x>>
             q1 == A \o user
             q2 == q1 \o H
             q3 == q2 \o port
             prefix == start \o q3
  <1>1. /\ user \in Seq(Tokens)
        /\ Len(user) = 0 \/ (Len(user) = 2 /\ user[1] \in Words /\ user[2] = "@")
        /\ port \in Seq(Tokens)
        /\ Len(port) = 0 \/ (Len(port) = 2 /\ port[1] = ":" /\ port[2] \in Ports)
        /\ start \in Seq(Tokens) /\ Len(start) = 2 /\ start[1] \in Words \ Ports /\ start[2] = ":"
        /\ H \in Seq(Tokens) /\ Len(H) = 1 /\ H[1] = x
        /\ A \in Seq(Tokens) /\ Len(A) = 2 /\ A[1] = "/" /\ A[2] = "/"
    <2>1. /\ user \in Seq(Tokens)
          /\ Len(user) = 0 \/ (Len(user) = 2 /\ user[1] \in Words /\ user[2] = "@")
      BY ShortTexts
    <2>2. /\ port \in Seq(Tokens)
          /\ Len(port) = 0 \/ (Len(port) = 2 /\ port[1] = ":" /\ port[2] \in Ports)
      BY ShortTexts
    <2>3. start \in Seq(Tokens) /\ Len(start) = 2 /\ start[1] \in Words \ Ports /\ start[2] = ":"
      BY ShortTexts
    <2>4. H \in Seq(Tokens) /\ Len(H) = 1 /\ H[1] = x
      BY ShortTexts, Zenon
    <2>5. A \in Seq(Tokens) /\ Len(A) = 2 /\ A[1] = "/" /\ A[2] = "/"
      BY ShortTexts, Zenon
    <2> HIDE DEF A, H
    <2> QED BY <2>1, <2>2, <2>3, <2>4, <2>5
  <1> HIDE DEF A, H
  <1>2. /\ q1 \in Seq(Tokens) /\ Len(q1) = 2 + Len(user)
        /\ \A i \in 1 .. 2 : q1[i] = A[i]
        /\ \A i \in 1 .. Len(user) : q1[2 + i] = user[i]
    BY SMTT(30), <1>1, BehindPrefix
  <1> HIDE DEF q1
  <1>3. /\ q2 \in Seq(Tokens) /\ Len(q2) = Len(q1) + 1
        /\ \A i \in 1 .. Len(q1) : q2[i] = q1[i]
        /\ \A i \in 1 .. 1 : q2[Len(q1) + i] = H[i]
    <2>1. /\ q2 \in Seq(Tokens) /\ Len(q2) = Len(q1) + Len(H)
          /\ \A i \in 1 .. Len(q1) : q2[i] = q1[i]
          /\ \A i \in 1 .. Len(H) : q2[Len(q1) + i] = H[i]
      <3>1. q1 \in Seq(Tokens) /\ H \in Seq(Tokens)
        BY <1>1, <1>2
      <3> HIDE <1>1, <1>2
      <3> QED BY <3>1, BehindPrefix
    <2> HIDE DEF q2
    <2> QED BY <1>1, <2>1
  <1> HIDE DEF q2
  <1>4. /\ q3 \in Seq(Tokens) /\ Len(q3) = Len(q2) + Len(port)
        /\ \A i \in 1 .. Len(q2) : q3[i] = q2[i]
        /\ \A i \in 1 .. Len(port) : q3[Len(q2) + i] = port[i]
    <2>1. q2 \in Seq(Tokens) /\ port \in Seq(Tokens)
      BY <1>1, <1>3
    <2> HIDE <1>1, <1>2, <1>3
    <2> QED BY <2>1, BehindPrefix
  <1> HIDE DEF q3
  <1>5. /\ prefix \in Seq(Tokens) /\ Len(prefix) = 2 + Len(q3)
        /\ \A i \in 1 .. 2 : prefix[i] = start[i]
        /\ \A i \in 1 .. Len(q3) : prefix[2 + i] = q3[i]
    <2>1. /\ prefix \in Seq(Tokens) /\ Len(prefix) = Len(start) + Len(q3)
          /\ \A i \in 1 .. Len(start) : prefix[i] = start[i]
          /\ \A i \in 1 .. Len(q3) : prefix[Len(start) + i] = q3[i]
      <3>1. start \in Seq(Tokens) /\ q3 \in Seq(Tokens)
        BY <1>1, <1>4
      <3> HIDE <1>1, <1>2, <1>3, <1>4
      <3> QED BY <3>1, BehindPrefix
    <2> HIDE DEF prefix
    <2> QED BY <1>1, <2>1
  <1> HIDE DEF prefix
  <1>a. /\ Len(user) \in {0, 2} /\ Len(port) \in {0, 2}
        /\ Len(q1) = 2 + Len(user) /\ Len(q2) = Len(q1) + 1 /\ Len(q3) = Len(q2) + Len(port)
        /\ Len(prefix) = 2 + Len(q3)
    BY <1>1, <1>2, <1>3, <1>4, <1>5
  <1>b. PICK k \in {5, 7} : k = Len(user) + 5
    <2>1. Len(user) + 5 \in {5, 7}
      <3>1. Len(user) \in {0, 2}
        BY <1>a
      <3> HIDE <1>1, <1>2, <1>3, <1>4, <1>5, <1>a
      <3> QED BY <3>1, PrefixLengths
    <2> QED BY <2>1
  <1>6. /\ Len(user) \in {0, 2} /\ Len(port) \in {0, 2} /\ k = Len(user) + 5
        /\ Len(q1) = 2 + Len(user) /\ Len(q2) = 3 + Len(user)
        /\ Len(q3) = 3 + Len(user) + Len(port)
        /\ Len(prefix) = k + Len(port)
    BY <1>a, <1>b
  <1>7. \A i \in 1 .. Len(q2) : prefix[2 + i] = q2[i]
    <2>1. \A i \in 1 .. Len(q2) : i \in 1 .. Len(q3)
      BY <1>6
    <2> QED BY <1>4, <1>5, <2>1
  <1>8. \A i \in 1 .. Len(q1) : prefix[2 + i] = q1[i]
    <2>1. \A i \in 1 .. Len(q1) : i \in 1 .. Len(q2)
      BY <1>6
    <2> QED BY <1>3, <1>7, <2>1
  <1>9. /\ prefix[1] \in Words \ Ports /\ prefix[2] = ":"
        /\ prefix[3] = "/" /\ prefix[4] = "/"
    <2>1. 1 \in 1 .. 2 /\ 2 \in 1 .. 2 /\ 1 \in 1 .. Len(q1) /\ 2 \in 1 .. Len(q1)
          /\ 2 + 1 = 3 /\ 2 + 2 = 4
      BY <1>6
    <2>2. prefix[1] = start[1] /\ prefix[2] = start[2]
      BY <1>5, <2>1
    <2>3. prefix[3] = q1[1] /\ prefix[4] = q1[2]
      BY <1>8, <2>1
    <2>4. q1[1] = "/" /\ q1[2] = "/"
      BY <1>1, <1>2, <2>1
    <2> QED BY <1>1, <2>2, <2>3, <2>4
  <1>10. k = 7 => prefix[5] \in Words /\ prefix[6] = "@"
    <2>1. SUFFICES ASSUME k = 7 PROVE prefix[5] \in Words /\ prefix[6] = "@"
      OBVIOUS
    <2>2. Len(user) = 2
      BY <1>6, <2>1
    <2>3. /\ 1 \in 1 .. Len(user) /\ 2 \in 1 .. Len(user) /\ 3 \in 1 .. Len(q1) /\ 4 \in 1 .. Len(q1)
          /\ 2 + 1 = 3 /\ 2 + 2 = 4 /\ 2 + 3 = 5 /\ 2 + 4 = 6
      BY <1>6, <2>2
    <2>4. q1[3] = user[1] /\ q1[4] = user[2]
      BY <1>2, <2>3
    <2>5. prefix[5] = q1[3] /\ prefix[6] = q1[4]
      BY <1>8, <2>3
    <2> QED BY <1>1, <2>2, <2>4, <2>5
  <1>11. prefix[k] = x
    <2>1. /\ Len(q1) + 1 \in 1 .. Len(q2) /\ 2 + (Len(q1) + 1) = k /\ 1 \in 1 .. 1
      BY <1>6
    <2> QED BY <1>1, <1>3, <1>7, <2>1
  <1>12. Len(port) = 2 => prefix[k + 1] = ":" /\ prefix[k + 2] \in Ports
    <2>1. SUFFICES ASSUME Len(port) = 2 PROVE prefix[k + 1] = ":" /\ prefix[k + 2] \in Ports
      OBVIOUS
    <2>2. /\ 1 \in 1 .. Len(port) /\ 2 \in 1 .. Len(port)
          /\ Len(q2) + 1 \in 1 .. Len(q3) /\ Len(q2) + 2 \in 1 .. Len(q3)
          /\ 2 + (Len(q2) + 1) = k + 1 /\ 2 + (Len(q2) + 2) = k + 2
      BY <1>6, <2>1
    <2>3. q3[Len(q2) + 1] = port[1] /\ q3[Len(q2) + 2] = port[2]
      BY <1>4, <2>2
    <2>4. prefix[k + 1] = q3[Len(q2) + 1] /\ prefix[k + 2] = q3[Len(q2) + 2]
      BY <1>5, <2>2
    <2> QED BY <1>1, <2>1, <2>3, <2>4
  <1>13. k <= Len(prefix) /\ (Len(prefix) = k \/ (Len(prefix) = k + 2 /\ Len(port) = 2))
    <2>1. /\ Len(user) + 5 <= (Len(user) + 5) + Len(port)
          /\ \/ (Len(user) + 5) + Len(port) = Len(user) + 5
             \/ (Len(user) + 5) + Len(port) = (Len(user) + 5) + 2 /\ Len(port) = 2
      BY <1>6, PrefixLengths
    <2> QED BY <1>6, <2>1
  <1>14. IsURLPrefix(prefix, k)
    BY <1>6, <1>9, <1>10, <1>11, <1>12, <1>13 DEF IsURLPrefix
  <1> QED BY <1>5, <1>11, <1>14 DEF URLPrefix, prefix, q3, q2, q1, A, H

LEMMA TokensAssociative ==
    ASSUME NEW a \in Seq(Tokens), NEW b \in Seq(Tokens), NEW c \in Seq(Tokens)
    PROVE  (a \o b) \o c = a \o (b \o c)
  BY ConcatAssociative

LEMMA BeginsWith ==
    ASSUME NEW S, NEW s \in Seq(S), NEW t \in Seq(S), Len(s) >= 1
    PROVE  s \o t \in Seq(S) /\ Len(s \o t) >= 1 /\ (s \o t)[1] = s[1]
  <1>1. Len(s) \in Nat /\ Len(t) \in Nat /\ 1 \in 1 .. Len(s)
    BY LenProperties
  <1>2. /\ s \o t \in Seq(S) /\ Len(s \o t) = Len(s) + Len(t)
        /\ \A i \in 1 .. Len(s) : (s \o t)[i] = s[i]
    BY BehindPrefix
  <1>3. Len(s) + Len(t) >= 1
    BY <1>1
  <1> QED BY <1>1, <1>2, <1>3

LEMMA URLTextRead ==
    ASSUME NEW start \in Schemes, NEW user \in UserParts, NEW x \in Words, NEW port \in PortParts,
           NEW o \in Words, NEW n \in Words, NEW path \in Seq(Tokens), IsPathOf(path, o, n)
    PROVE  NormalizeRemote(start \o URLText(user, x, port, path)) = RemoteIdentity(Lower[x], o, n)
  <1> DEFINE authority == <<"/", "/">> \o user \o <<x>> \o port
             slash == <<"/">>
  <1>1. /\ authority \in Seq(Tokens) /\ slash \in Seq(Tokens) /\ start \in Seq(Tokens)
    <2>1. /\ <<"/", "/">> \in Seq(Tokens) /\ user \in Seq(Tokens) /\ <<x>> \in Seq(Tokens)
          /\ port \in Seq(Tokens) /\ slash \in Seq(Tokens) /\ start \in Seq(Tokens)
      BY ShortTexts
    <2>2. <<"/", "/">> \o user \in Seq(Tokens)
      BY <2>1, ConcatProperties
    <2>3. <<"/", "/">> \o user \o <<x>> \in Seq(Tokens)
      BY <2>1, <2>2, ConcatProperties
    <2>4. authority \in Seq(Tokens)
      BY <2>1, <2>3, ConcatProperties
    <2> QED BY <2>1, <2>4
  <1>2. URLText(user, x, port, path) = (authority \o slash) \o path
    BY Zenon DEF URLText
  <1>3. start \o authority = URLPrefix(start, user, x, port)
    BY Zenon DEF URLPrefix
  <1> HIDE DEF authority
  <1>4. start \o URLText(user, x, port, path) = URLPrefix(start, user, x, port) \o (slash \o path)
    <2>1. start \o ((authority \o slash) \o path) = (start \o authority) \o (slash \o path)
      <3>1. (authority \o slash) \o path = authority \o (slash \o path)
        BY <1>1, TokensAssociative
      <3>2. slash \o path \in Seq(Tokens)
        BY <1>1, ConcatProperties
      <3>3. (start \o authority) \o (slash \o path) = start \o (authority \o (slash \o path))
        BY <1>1, <3>2, TokensAssociative
      <3> QED BY <3>1, <3>3, Zenon
    <2> QED BY <1>2, <1>3, <2>1, Zenon
  <1>5. URLPrefix(start, user, x, port) \in Seq(Tokens)
    BY URLPrefixIs
  <1>6. PICK k : IsURLPrefix(URLPrefix(start, user, x, port), k)
                 /\ URLPrefix(start, user, x, port)[k] = x
    BY URLPrefixIs
  <1>7. NormalizeRemote(URLPrefix(start, user, x, port) \o (slash \o path))
            = RemoteIdentity(Lower[URLPrefix(start, user, x, port)[k]], o, n)
    BY <1>5, <1>6, URLSpelled
  <1> QED BY <1>4, <1>6, <1>7, Zenon

LEMMA URLTextBegins ==
    ASSUME NEW user \in UserParts, NEW x \in Words, NEW port \in PortParts,
           NEW path \in Seq(Tokens)
    PROVE  URLText(user, x, port, path)[1] = "/"
  <1> DEFINE A == <<"/", "/">>
             H == <<x>>
             S == <<"/">>
             q1 == A \o user
             q2 == q1 \o H
             q3 == q2 \o port
             q4 == q3 \o S
  <1>1. /\ A \in Seq(Tokens) /\ Len(A) >= 1 /\ A[1] = "/"
        /\ user \in Seq(Tokens) /\ H \in Seq(Tokens) /\ port \in Seq(Tokens) /\ S \in Seq(Tokens)
    BY ShortTexts
  <1> HIDE DEF A, H, S
  <1>2. q1 \in Seq(Tokens) /\ Len(q1) >= 1 /\ q1[1] = A[1]
    BY <1>1, BeginsWith
  <1> HIDE DEF q1
  <1>3. q2 \in Seq(Tokens) /\ Len(q2) >= 1 /\ q2[1] = q1[1]
    BY <1>1, <1>2, BeginsWith
  <1> HIDE DEF q2
  <1>4. q3 \in Seq(Tokens) /\ Len(q3) >= 1 /\ q3[1] = q2[1]
    BY <1>1, <1>3, BeginsWith
  <1> HIDE DEF q3
  <1>5. q4 \in Seq(Tokens) /\ Len(q4) >= 1 /\ q4[1] = q3[1]
    BY <1>1, <1>4, BeginsWith
  <1> HIDE DEF q4
  <1>6. (q4 \o path)[1] = q4[1]
    BY <1>5, BeginsWith
  <1>7. (q4 \o path)[1] = "/"
    BY <1>1, <1>2, <1>3, <1>4, <1>5, <1>6
  <1>8. URLText(user, x, port, path) = q4 \o path
    BY Zenon DEF URLText, q4, q3, q2, q1, A, H, S
  <1> QED BY <1>7, <1>8, Zenon

LEMMA AddressTextRead ==
    ASSUME NEW u \in Words, NEW x \in Words, NEW o \in Words, NEW n \in Words,
           NEW slash \in Optional(<<"/">>), NEW path \in PathsOf(o, n)
    PROVE  /\ NormalizeRemote(<<u>> \o AddressText(x, slash, path)) = RemoteIdentity(Lower[x], o, n)
           /\ AddressText(x, slash, path)[1] = "@"
  <1> DEFINE U == <<u>>
             B == <<"@", x, ":">>
             S == <<"/">>
             prefix == U \o B
             rest == slash \o path
             q == B \o slash
  <1>1. path \in Seq(Tokens) /\ Len(path) >= 3 /\ path[1] = o /\ IsPathOf(path, o, n)
    BY PathsAre
  <1>2. /\ U \in Seq(Tokens) /\ Len(U) = 1 /\ U[1] = u
        /\ B \in Seq(Tokens) /\ Len(B) = 3 /\ B[1] = "@" /\ B[2] = x /\ B[3] = ":"
        /\ S \in Seq(Tokens) /\ Len(S) = 1
    <2>1. u \in Tokens /\ x \in Tokens /\ "@" \in Tokens /\ ":" \in Tokens /\ "/" \in Tokens
      BY DEF Tokens
    <2> QED BY <2>1
  <1>3. slash = <<>> \/ slash = S
    BY DEF Optional
  <1>4. slash \in Seq(Tokens)
    <2>1. <<>> \in Seq(Tokens)
      OBVIOUS
    <2> QED BY <1>2, <1>3, <2>1
  <1>5. /\ rest \in Seq(Tokens) /\ IsPathOf(rest, o, n) /\ Len(rest) >= 2
        /\ rest[1] = o \/ rest[2] = o
    <2>1. CASE slash = <<>>
      <3>1. rest = path
        BY <1>1, <2>1, ConcatEmptySeq
      <3> HIDE DEF rest
      <3> QED BY <1>1, <3>1
    <2>2. CASE slash = S
      <3>1. rest \in Seq(Tokens) /\ IsPathOf(rest, o, n)
        BY <1>1, <2>2, SlashInFront
      <3> HIDE DEF S
      <3>2. /\ Len(rest) = Len(slash) + Len(path)
            /\ \A i \in 1 .. Len(path) : rest[Len(slash) + i] = path[i]
        BY <1>1, <1>4, BehindPrefix
      <3> HIDE DEF rest
      <3>3. Len(slash) = 1 /\ 1 \in 1 .. Len(path) /\ 1 + 1 = 2 /\ Len(path) \in Nat
        BY <1>1, <1>2, <2>2, LenProperties
      <3>4. rest[2] = o /\ Len(rest) >= 2
        <4>1. rest[2] = path[1]
          BY <3>2, <3>3
        <4>2. 1 + Len(path) >= 2
          BY <1>1, <3>3
        <4> QED BY <1>1, <3>2, <3>3, <4>1, <4>2
      <3> QED BY <3>1, <3>4
    <2> QED BY <1>3, <2>1, <2>2
  <1> HIDE DEF U, B, S, rest
  <1>6. /\ prefix \in Seq(Tokens) /\ Len(prefix) = 4
        /\ prefix[1] = u /\ prefix[2] = "@" /\ prefix[3] = x /\ prefix[4] = ":"
    <2>1. U \in Seq(Tokens) /\ B \in Seq(Tokens)
      BY <1>2
    <2>2. /\ prefix \in Seq(Tokens) /\ Len(prefix) = Len(U) + Len(B)
          /\ \A i \in 1 .. Len(U) : prefix[i] = U[i]
          /\ \A i \in 1 .. Len(B) : prefix[Len(U) + i] = B[i]
      BY <2>1, BehindPrefix
    <2> HIDE DEF prefix
    <2>3. /\ 1 \in 1 .. 1 /\ 1 \in 1 .. 3 /\ 2 \in 1 .. 3 /\ 3 \in 1 .. 3
          /\ 1 + 1 = 2 /\ 1 + 2 = 3 /\ 1 + 3 = 4
      OBVIOUS
    <2> QED BY <1>2, <2>2, <2>3
  <1> HIDE DEF prefix
  <1>7. NormalizeRemote(prefix \o rest) = RemoteIdentity(Lower[x], o, n)
    <2>1. prefix[1] \in Words /\ prefix[3] \in Words
      BY <1>6
    <2>2. NormalizeRemote(prefix \o rest) = RemoteIdentity(Lower[prefix[3]], o, n)
      BY <1>5, <1>6, <2>1, AddressSpelled
    <2> QED BY <1>6, <2>2
  <1>8. U \o (q \o path) = prefix \o rest
    <2>1. /\ U \in Seq(Tokens) /\ B \in Seq(Tokens) /\ rest \in Seq(Tokens)
          /\ slash \in Seq(Tokens) /\ path \in Seq(Tokens)
      BY <1>1, <1>2, <1>4, <1>5
    <2>2. (B \o slash) \o path = B \o (slash \o path)
      BY ZenonT(60), <2>1, TokensAssociative
    <2>3. (U \o B) \o rest = U \o (B \o rest)
      BY SMTT(30), <2>1, TokensAssociative
    <2> QED BY <2>2, <2>3, Zenon DEF prefix, rest
  <1>9. (q \o path)[1] = "@"
    <2>1. q \in Seq(Tokens) /\ Len(q) >= 1 /\ q[1] = B[1]
      <3>1. B \in Seq(Tokens) /\ slash \in Seq(Tokens) /\ Len(B) >= 1
        BY <1>2, <1>4
      <3> HIDE <1>1, <1>2, <1>3, <1>4, <1>5, <1>6, <1>7
      <3> QED BY <3>1, BeginsWith
    <2> HIDE DEF q
    <2>2. (q \o path)[1] = q[1]
      BY <1>1, <2>1, BeginsWith
    <2> QED BY <1>2, <2>1, <2>2
  <1>10. AddressText(x, slash, path) = q \o path /\ <<u>> = U
    BY Zenon DEF AddressText, B, U
  <1> QED BY <1>7, <1>8, <1>9, <1>10, Zenon

LEMMA SpellingIs ==
    ASSUME NEW h, NEW o, NEW n, NEW text \in Spellings(h, o, n)
    PROVE  \/ \E user \in UserParts, x \in Words, port \in PortParts, path \in PathsOf(o, n) :
                 Lower[x] = h /\ text = URLText(user, x, port, path)
           \/ \E x \in Words, slash \in Optional(<<"/">>), path \in PathsOf(o, n) :
                 Lower[x] = h /\ text = AddressText(x, slash, path)
  BY DEF Spellings

(* However a repository is spelled, it is recognized (NormalizeRemote).    *)
THEOREM EverySpellingRecognized ==
    ASSUME NEW h \in Words, NEW o \in Words, NEW n \in Words,
           NEW text \in Spellings(h, o, n), NEW start \in Schemes \cup Users,
           text[1] = "/" <=> start \in Schemes
    PROVE  NormalizeRemote(start \o text) = RemoteIdentity(h, o, n)
  <1>1. CASE \E user \in UserParts, x \in Words, port \in PortParts, path \in PathsOf(o, n) :
                Lower[x] = h /\ text = URLText(user, x, port, path)
    <2>1. PICK user \in UserParts, x \in Words, port \in PortParts, path \in PathsOf(o, n) :
                Lower[x] = h /\ text = URLText(user, x, port, path)
      BY <1>1
    <2>2. path \in Seq(Tokens) /\ IsPathOf(path, o, n)
      BY PathsAre
    <2>3. text[1] = "/"
      BY <2>1, <2>2, URLTextBegins
    <2>4. start \in Schemes
      BY <2>3
    <2>5. NormalizeRemote(start \o URLText(user, x, port, path)) = RemoteIdentity(Lower[x], o, n)
      BY <2>2, <2>4, URLTextRead
    <2> QED BY <2>1, <2>5, Zenon
  <1>2. CASE \E x \in Words, slash \in Optional(<<"/">>), path \in PathsOf(o, n) :
                Lower[x] = h /\ text = AddressText(x, slash, path)
    <2>1. PICK x \in Words, slash \in Optional(<<"/">>), path \in PathsOf(o, n) :
                Lower[x] = h /\ text = AddressText(x, slash, path)
      BY <1>2
    <2>2. ASSUME NEW u \in Words
          PROVE  /\ NormalizeRemote(<<u>> \o AddressText(x, slash, path)) = RemoteIdentity(Lower[x], o, n)
                 /\ AddressText(x, slash, path)[1] = "@"
      BY AddressTextRead
    <2>3. text[1] # "/"
      BY <2>1, <2>2
    <2>4. PICK u \in RemoteWords : start = <<u>>
      BY <2>3 DEF Users
    <2>5. u \in Words
      BY RemoteAssumption
    <2> QED BY <2>1, <2>2, <2>4, <2>5, Zenon
  <1> QED BY <1>1, <1>2, SpellingIs

(* Every remote checked is read as what it is written as (NormalizeRemote).*)
THEOREM RemotesIdentified == Spec => []RemotesIdentify
  <1>1. SpellingsRecognized
    <2>1. ASSUME NEW h \in RemoteWords, NEW o \in RemoteWords, NEW n \in RemoteWords,
                 NEW text \in Spellings(h, o, n), NEW start \in Schemes \cup Users,
                 text[1] = "/" <=> start \in Schemes
          PROVE  NormalizeRemote(start \o text) = RemoteIdentity(h, o, n)
      <3>1. h \in Words /\ o \in Words /\ n \in Words
        BY RemoteAssumption
      <3> QED BY <2>1, <3>1, EverySpellingRecognized
    <2> QED BY <2>1, Zenon DEF SpellingsRecognized
  <1>2. RemotesRead
    <2>1. ASSUME NEW text \in SeqOf(RemoteWords \cup {":", "/", "@", ".git"}, MaxTokens),
                 NEW h \in RemoteWords, NEW o \in RemoteWords, NEW n \in RemoteWords
          PROVE  NormalizeRemote(text) = RemoteIdentity(h, o, n) <=> IsRemoteOf(text, h, o, n)
      <3>1. MaxTokens \in Nat /\ RemoteWords \subseteq Words
        BY RemoteAssumption
      <3>2. PICK k \in Nat : text \in [1 .. k -> RemoteWords \cup {":", "/", "@", ".git"}]
        BY <3>1, SeqOfHas
      <3>3. text \in Seq(Tokens)
        BY <3>1, <3>2 DEF Tokens
      <3> QED BY <3>1, <3>3, EveryRemoteRead
    <2> QED BY <2>1, Zenon DEF RemotesRead
  <1>3. RemotesIdentify
    BY <1>1, <1>2 DEF RemotesIdentify, RemotesExact
  <1> QED BY <1>3, PTL
=============================================================================
