----------------------------- MODULE GitRemote -----------------------------
(***************************************************************************)
(* NormalizeRemote: which repository a git remote names.  A remote is a    *)
(* sequence of words and of the tokens ":", "/", "@" and ".git".           *)
(***************************************************************************)
EXTENDS Text, SequencesExt

CONSTANTS
    Lower,        \* the lower case of each word
    Ports,        \* the words that are numbers
    NoRemote,     \* not the remote of a hosted repository
    RemoteWords,  \* the words of the remotes that are checked
    MaxTokens     \* bound on their length

Words == DOMAIN Lower

ASSUME RemoteAssumption ==
    /\ \A w \in Words : Lower[w] \in Words /\ Lower[Lower[w]] = Lower[w]
    /\ Ports \cup RemoteWords \subseteq Words
    /\ Words \cap {":", "/", "@", ".git"} = {}
    /\ \A h, o, n \in Words : NoRemote # [host |-> <<h>>, owner |-> <<o>>, name |-> <<n>>]
    /\ MaxTokens \in Nat

LowerCase(s) == [i \in DOMAIN s |-> IF s[i] \in Words THEN Lower[s[i]] ELSE s[i]]

TrimSuffix(s) == IF s # <<>> /\ Last(s) = ".git" THEN Before(Len(s), s) ELSE s

(* Fault: the suffix is looked for before the slashes are trimmed.         *)
SuffixFirst(path) == Strip(TrimSuffix(path), {"/"})

Trimmed(path) == TrimSuffix(Strip(path, {"/"}))

(* A path has to be owner/name.                                            *)
Identity(server, path) ==
    LET slashes == Positions("/", Trimmed(path))
    IN  IF \E i \in slashes : slashes = {i} /\ i \notin {1, Len(Trimmed(path))}
        THEN [host  |-> LowerCase(server),
              owner |-> Before(Leftmost(slashes), Trimmed(path)),
              name  |-> After(Leftmost(slashes), Trimmed(path))]
        ELSE NoRemote

HasAuthority(s) == Len(s) >= 2 /\ s[1] = "/" /\ s[2] = "/"

(* user@host:path, when there is no "://" and the host is not empty.       *)
IsScp(s) ==
    LET address == Before(Leftmost(Positions(":", s)), s)
    IN  /\ Positions(":", s) # {}
        /\ ~ \E i \in Positions(":", s) : HasAuthority(After(i, s))
        /\ Positions("@", address) # {}
        /\ After(Leftmost(Positions("@", address)), address) # <<>>

(* url.Parse: what is behind the scheme, which no digit begins, or all of  *)
(* it without one.                                                         *)
Hierarchy(s) ==
    IF /\ Positions(":", s) # {} /\ s[1] \in Words \ Ports
       /\ ToSet(Before(Leftmost(Positions(":", s)), s)) \subseteq Words \cup {".git"}
    THEN After(Leftmost(Positions(":", s)), s)
    ELSE s

(* url.Hostname: what is behind the last "@" and before the port, which    *)
(* has to be a number; <<>> for an authority without a host.               *)
Hostname(authority) ==
    LET server == After(Rightmost(Positions("@", authority) \cup {0}), authority)
        colon  == Rightmost(Positions(":", server))
    IN  IF Positions(":", server) = {} THEN server
        ELSE IF ToSet(After(colon, server)) \subseteq Ports THEN Before(colon, server)
        ELSE <<>>

NormalizeRemote(text) ==
    IF IsScp(text)
    THEN LET colon   == Leftmost(Positions(":", text))
             address == Before(colon, text)
         IN  Identity(After(Leftmost(Positions("@", address)), address), After(colon, text))
    ELSE LET rest   == After(2, Hierarchy(text))
             slash  == Leftmost(Positions("/", rest) \cup {Len(rest) + 1})
             server == Hostname(Before(slash, rest))
         IN  IF HasAuthority(Hierarchy(text)) /\ server # <<>>
             THEN Identity(server, SubSeq(rest, slash, Len(rest)))
             ELSE NoRemote

-----------------------------------------------------------------------------
(* What a remote has to mean. *)

RemoteIdentity(server, owner, name) ==
    [host |-> <<server>>, owner |-> <<owner>>, name |-> <<name>>]

(* Slashes around owner/name, which the suffix may follow.                 *)
IsPathOf(path, owner, name) ==
    \E i \in DOMAIN path :
        /\ i + 2 \in DOMAIN path
        /\ path[i] = owner /\ path[i + 1] = "/" /\ path[i + 2] = name
        /\ \A j \in DOMAIN path \ (i .. i + 2) :
              path[j] = "/" \/ (j = i + 3 /\ path[j] = ".git")

(* user@host:path: the first "@" is in front of the host at k, the first   *)
(* ":" behind it.                                                          *)
IsAddress(text, k) ==
    /\ k > 1 /\ k < Len(text) /\ text[k - 1] = "@" /\ text[k + 1] = ":"
    /\ \A i \in 1 .. k - 2 : text[i] \notin {":", "@"}
    /\ ~ HasAuthority(After(k + 1, text))

(* scheme://user@host:port/: the ":" of the scheme is at start, which is 0 *)
(* without one, the host at k; host and port end at end.                   *)
IsURL(text, start, k, end) ==
    /\ start # 0 => /\ text[start] = ":" /\ text[1] \in Words \ Ports
                    /\ \A i \in 1 .. start - 1 : text[i] \in Words \cup {".git"}
    /\ text[start + 1] = "/" /\ text[start + 2] = "/"
    /\ \A i \in start + 3 .. k - 1 : text[i] # "/"
    /\ k = start + 3 \/ text[k - 1] = "@"
    /\ k = end \/ (text[k + 1] = ":" /\ \A i \in k + 2 .. end : text[i] \in Ports)
    /\ text[end + 1] = "/"

(* Without a scheme what can be read as user@host:path is.                 *)
IsRemoteOf(text, server, owner, name) ==
    \E k \in DOMAIN text :
        /\ text[k] \in Words /\ Lower[text[k]] = server
        /\ \/ IsAddress(text, k) /\ IsPathOf(After(k + 1, text), owner, name)
           \/ \E start \in 0 .. k - 3 : \E end \in k .. Len(text) - 1 :
                 /\ IsURL(text, start, k, end) /\ (start = 0 => ~ IsScp(text))
                 /\ IsPathOf(After(end, text), owner, name)

(* A text names a repository exactly when it is written as its remote.     *)
RemotesRead ==
    \A text \in SeqOf(RemoteWords \cup {":", "/", "@", ".git"}, MaxTokens) :
        LET id == NormalizeRemote(text)
        IN  \A h, o, n \in RemoteWords :
                id = RemoteIdentity(h, o, n) <=> IsRemoteOf(text, h, o, n)

Optional(s) == {<<>>, s}

UserParts     == {<<u, "@">> : u \in RemoteWords} \cup {<<>>}
PortParts     == {<<":", p>> : p \in Ports} \cup {<<>>}
PathsOf(o, n) == {<<o, "/", n>> \o suffix \o slash :
                     suffix \in Optional(<<".git">>), slash \in Optional(<<"/">>)}

URLText(user, h, port, path) == <<"/", "/">> \o user \o <<h>> \o port \o <<"/">> \o path
AddressText(h, slash, path)  == <<"@", h, ":">> \o slash \o path

(* The ways to write the remote of a repository behind a user, if any: as  *)
(* a URL, the scheme of which may be left out, or as host:path.            *)
Spellings(server, owner, name) ==
    LET hosts == {h \in Words : Lower[h] = server}
    IN  {URLText(user, h, port, path) :
            user \in UserParts, h \in hosts, port \in PortParts, path \in PathsOf(owner, name)}
        \cup {AddressText(h, slash, path) :
            h \in hosts, slash \in Optional(<<"/">>), path \in PathsOf(owner, name)}

Schemes == {<<w, ":">> : w \in RemoteWords \ Ports}
Users   == {<<w>> : w \in RemoteWords}

SpellingsRecognized ==
    \A h, o, n \in RemoteWords : Lower[h] = h =>
        \A text \in Spellings(h, o, n), start \in Schemes \cup Users :
            (text[1] = "/" <=> start \in Schemes) =>
                NormalizeRemote(start \o text) = RemoteIdentity(h, o, n)

RemotesExact == SpellingsRecognized /\ RemotesRead
=============================================================================
