----------------------------- MODULE MCSession -----------------------------
(* Instances of Session for TLC.                                            *)
EXTENDS Session

(* Up to six tokens after the program's name hold two flags with their      *)
(* values, and a token between them and after them.                         *)
Lines(tokens, n) == {<<"main">> \o words : words \in UNION {[1 .. k -> tokens] : k \in 0 .. n}}

FlagLines == Lines({"-node", "0.9", "send"}, 6) \cup Lines({"-trustscore", "0.9", "send"}, 4)

CommandOnly == {<<"main", c>> : c \in Commands} \cup {<<"main", c, "args">> : c \in Commands}

LevelLines == {<<"main", "setconsistency", "-level", level>> : level \in Levels \cup {"weak"}}

TrustLines == {<<"main", "settrust", "-score", "0.9">>,
               <<"main", "settrust", "-node", "0.2", "-score", "0.9">>,
               <<"main", "-node", "0.2", "settrust", "-score", "0.9">>}

MenuOnly == {<<"main">>}

AllLines == FlagLines \cup CommandOnly \cup LevelLines \cup TrustLines
=============================================================================
