---------------------------- MODULE RequestTools ----------------------------
(***************************************************************************)
(* What a request brings with it: how its URI is decoded and split into    *)
(* pairs (tool.cpp), by the handlers of the dashboard's requests, which    *)
(* are encoded, and of the submit page's, which are not, and how files and *)
(* Redis keys are named after a user and a title (judge.cpp).  A text is a *)
(* sequence of symbols, and an escape such as %26 is one symbol.  A user   *)
(* may type it too: %26 and %41 stand for what is typed as the three       *)
(* characters.  A % without two hexadecimal digits, for which the decoder  *)
(* uses a value it has not set, is left out.                               *)
(***************************************************************************)
EXTENDS Integers, Sequences, SequencesExt, FiniteSets

CONSTANTS
    Symbols,  \* what a user may type, one by one
    Texts,    \* the texts that are typed
    Names,    \* the other users and titles there are
    Numbers   \* of test cases, as texts

\* What encodeURIComponent makes of a symbol; the % of a typed escape becomes %25.
Escape == [c \in {"&", "=", "+", " ", "#", "%26", "%41"} |->
             CASE c = "&" -> "%26" [] c = "=" -> "%3D" [] c = "+" -> "%2B" [] c = " " -> "%20"
               [] c = "#" -> "%23" [] c = "%26" -> "%2526" [] c = "%41" -> "%2541"]

\* What the decoder makes of an escape, whoever wrote it.
Meaning == [e \in {"%26", "%3D", "%2B", "%20", "%23", "%41", "%2526", "%2541"} |->
              CASE e = "%26" -> "&" [] e = "%3D" -> "=" [] e = "%2B" -> "+" [] e = "%20" -> " "
                [] e = "%23" -> "#" [] e = "%41" -> "A"
                [] e = "%2526" -> "%26" [] e = "%2541" -> "%41"]

ASSUME ToolsAssumption ==
    /\ Symbols \cap DOMAIN Meaning \subseteq DOMAIN Escape
    /\ Texts \subseteq Seq(Symbols) /\ Names \subseteq Seq(Symbols)
    /\ Numbers \subseteq Seq({"0", "1", "2", "3", "4", "5", "6", "7", "8", "9"})

VARIABLES
    typed,   \* the two values a user typed
    page,    \* the page whose request is being split, or "none"
    allKV,   \* uriKV_get's allKV
    rounds,  \* total - i: the rounds of its loop that are left
    uriKV,   \* its map
    stored   \* the first value, as the dashboard's request brought it

requestVars == <<typed, page, allKV, rounds, uriKV, stored>>
-----------------------------------------------------------------------------
\* encodeURIComponent, as the staff dashboard calls it.
encodeURIComponent(text) ==
    [i \in DOMAIN text |-> IF text[i] \in DOMAIN Escape THEN Escape[text[i]] ELSE text[i]]

Unescaped(c) ==
    IF c = "+" THEN " " ELSE IF c \in DOMAIN Meaning THEN Meaning[c] ELSE c

\* Mutant: a + is left as it is.
url_decode_plus(str) == [i \in DOMAIN str |-> IF str[i] = "+" THEN "+" ELSE Unescaped(str[i])]

url_decode(str) == [i \in DOMAIN str |-> Unescaped(str[i])]

Positions(text, c) == {i \in 1..Len(text) : text[i] = c}

\* find(), with 0 for npos.
Find(text, c) == IF Contains(text, c) THEN Min(Positions(text, c)) ELSE 0

Before(text, c) == IF Contains(text, c) THEN SubSeq(text, 1, Find(text, c) - 1) ELSE text

\* Mutant: the text after the last c.
AfterLast(text, c) ==
    IF Contains(text, c) THEN SubSeq(text, Max(Positions(text, c)) + 1, Len(text)) ELSE text

\* substr(find(c) + 1): the whole text when there is no c, as npos + 1 = 0.
After(text, c) == SubSeq(text, Find(text, c) + 1, Len(text))

\* The map keeps the first value of a key, and gives "" for one that is not there.
Insert(map, key, value) ==
    [k \in DOMAIN map \cup {key} |-> IF k \in DOMAIN map THEN map[k] ELSE value]
Get(map, key) == IF key \in DOMAIN map THEN map[key] ELSE <<>>

\* A request for x with two parameters, as a page puts its URI together.
Query(x, y) == <<"/", "?", "x", "=">> \o x \o <<"&", "y", "=">> \o y

-----------------------------------------------------------------------------
RequestInit ==
    /\ typed = <<<<>>, <<>>>> /\ page = "none"
    /\ allKV = <<>> /\ rounds = 0 /\ uriKV = <<>> /\ stored = <<>>

\* A handler decodes the URI and calls uriKV_get, up to its loop.
Arrive(uri) ==
    /\ allKV' = After(url_decode(uri), "?")
    /\ rounds' = Cardinality(Positions(allKV', "&")) + 1
    /\ uriKV' = <<>>

\* A request of the dashboard.
Upload ==
    /\ page = "none"
    /\ page' = "dashboard"
    /\ \E x, y \in Texts :
          /\ typed' = <<x, y>>
          /\ Arrive(Query(encodeURIComponent(x), encodeURIComponent(y)))
    /\ UNCHANGED stored

\* The loop of uriKV_get takes one pair off the front in each round.
SplitPair ==
    /\ rounds # 0
    /\ rounds' = rounds - 1
    /\ LET singleKV == Before(allKV, "&")
       IN  uriKV' = Insert(uriKV, Before(singleKV, "="), After(singleKV, "="))
    /\ allKV' = After(allKV, "&")
    /\ UNCHANGED <<typed, page, stored>>

\* The dashboard's request has been dealt with, and one of the submit page comes, about
\* the same values; the browser does not send what is behind a "#".
Submit ==
    /\ page = "dashboard" /\ rounds = 0
    /\ page' = "submit"
    /\ stored' = Get(uriKV, <<"x">>)
    /\ Arrive(Before(Query(typed[1], typed[2]), "#"))
    /\ UNCHANGED typed

RequestNext == Upload \/ SplitPair \/ Submit

RequestSpec == RequestInit /\ [][RequestNext]_requestVars
-----------------------------------------------------------------------------
\* What stands between the parts of a name.
Separator == "_"

\* Mutant: nothing stands between the user and the title.
file_name_joined(user_name, porblem_title) == user_name \o porblem_title

file_name(user_name, porblem_title) == user_name \o <<Separator, Separator>> \o porblem_title

\* The keys, after "Judge:", of a submission: its state, the sum, the test cases.
KeysOf(user_name, porblem_title) ==
    {file_name(user_name, porblem_title) \o rest :
        rest \in {<<>>, <<Separator, Separator, "sum">>} \cup {<<Separator>> \o i : i \in Numbers}}
-----------------------------------------------------------------------------
(* Properties *)

\* What the dashboard sends encoded arrives as it was typed exactly when it has no "&":
\* the URI is decoded before it is split, so an "&" ends the value.  The second value
\* arrives too unless the first one has swallowed its key.
ValuesArrive ==
    page = "dashboard" /\ rounds = 0 =>
        /\ Get(uriKV, <<"x">>) = Before(typed[1], "&")
        /\ ~Contains(typed[1], "&") => Get(uriKV, <<"y">>) = Before(typed[2], "&")

\* What does not arrive as it was typed unless it is encoded.
Unsafe == {"+", "#"} \cup DOMAIN Meaning

\* The submit page sends the title as it is (Judge.html:124), and the decoder cannot tell
\* what was typed from what a page encoded (tool.cpp:31-41): it names the problem the
\* dashboard uploaded under that title exactly when the title, up to an "&", has no "+", no
\* "#" and nothing that looks like an escape.
TitlesAgree ==
    page = "submit" /\ rounds = 0 =>
        (Get(uriKV, <<"x">>) = stored
            <=> \A c \in Unsafe : ~Contains(Before(typed[1], "&"), c))

\* Users and titles without "_" share no file and no Redis key: not a case's result with
\* another title's status, nor one user's sum with another's.
KeysApart ==
    \A u, t \in Names :
        /\ <<u, t>> # typed
        /\ \A name \in {u, t, typed[1], typed[2]} : ~Contains(name, Separator)
        => KeysOf(u, t) \cap KeysOf(typed[1], typed[2]) = {}
=============================================================================
