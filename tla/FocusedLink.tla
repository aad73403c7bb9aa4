----------------------------- MODULE FocusedLink -----------------------------
(***************************************************************************)
(* Opening the link of the focused task: extract_url and execute_open_link *)
(* of controller/schronu/runtime.rs.  The link is looked for by bisection, *)
(* though what it looks for is not monotone: the first characters of a     *)
(* link are no link yet.  Of a name only its first "http" matters, how     *)
(* many characters from there a link may hold, and how many follow them.   *)
(* Url::parse is taken to accept a beginning of them from Shortest on.     *)
(***************************************************************************)
EXTENDS Integers, Sequences

CONSTANTS
    Shortest,    \* characters of the shortest link
    MaxLength,   \* bound: no more characters than that in a link, and after it
    MaxDepth     \* bound: no more ancestors than that

VARIABLES
    names,       \* the names of the focused task and its ancestors, upwards
    search,      \* "on", "opened" or "no link"
    opened       \* how many characters were given to the browser

linkVars == <<names, search, opened>>

NoLink == [http |-> FALSE, link |-> 0, rest |-> 0]
Names == {NoLink} \cup [http : {TRUE}, link : 0..MaxLength, rest : 0..MaxLength]

IsLink(name, count) == count >= Shortest /\ count <= name.link

\* Bisection of `count`, 0 taken to be right and the end, a sentinel that is in
\* no link, to be wrong.
Bisected(name, end) ==
    LET within[bounds \in (0..end) \X (0..end)] ==
            LET ok == bounds[1]
                ng == bounds[2]
                mid == (ok + ng) \div 2
            IN  IF ng - ok <= 1 THEN ok
                ELSE within[IF IsLink(name, mid) THEN <<mid, ng>> ELSE <<ok, mid>>]
    IN  within[<<0, end>>]

ExtractUrl(name) == Bisected(name, name.link + name.rest + 1)

Init ==
    /\ \E depth \in 0..MaxDepth : names \in [1..depth -> Names]
    /\ search = "on" /\ opened = 0

\* The first task upwards with an "http" in its name is the last looked at.
OpenLink ==
    /\ search = "on"
    /\ \/ names = << >> /\ search' = "no link" /\ UNCHANGED <<names, opened>>
       \/ names # << >> /\ ~ Head(names).http /\ names' = Tail(names) /\ UNCHANGED <<search, opened>>
       \/ /\ names # << >> /\ Head(names).http
          /\ opened' = ExtractUrl(Head(names)) /\ search' = "opened"
          /\ UNCHANGED names

Next == OpenLink
Spec == Init /\ [][Next]_linkVars

-----------------------------------------------------------------------------
(***************************************************************************)
(* Properties                                                              *)
(***************************************************************************)
\* What is given to the browser is the whole link of the name or nothing at
\* all, never a part of it; and it is the link when that is twice as long as
\* the shortest.
WholeLinkOrNothing ==
    search = "opened" =>
        LET link == Head(names).link
        IN  /\ opened \in {0, link}
            /\ link + 1 >= 2 * Shortest => opened = link

\* The same of every link, as the comment on extract_url says: the longest
\* part of the name that can be read as a link.
LongestLink ==
    search = "opened" /\ Head(names).link >= Shortest => opened = Head(names).link
=============================================================================
