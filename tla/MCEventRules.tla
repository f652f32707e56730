--------------------------- MODULE MCEventRules ---------------------------
(* The inputs EventRules is checked on.  "word" is a word of no list.      *)
EXTENDS EventRules, TLC

Terms == {"word", "ai", "inference", "openai", "nvidia", "gpu", "paper",
          "launch", "acquire", "film", "deal", "rt"}
AtMost(n) == {x \in SUBSET Terms : Cardinality(x) <= n}
MCTexts == [title : AtMost(3), body : AtMost(1), rest : {{}, {"ai"}, {"launch"}},
            topics : {{}, {"ai"}, {"paper"}}]

Story(url, root, title, objects, organizations, act, at, by) ==
  [url |-> url, root |-> root, title |-> title, objects |-> objects, organizations |-> organizations,
   act |-> act, at |-> at, by |-> by]
MCStories ==
  {Story(u, Absent, t, {"x"}, {}, "launch", d, u) : u \in {"u1", "u2", "u3"}, t \in {1, 3}, d \in {1, 3, 5}}
  \cup {Story(u, "u1", t, {"x"}, {}, "launch", 3, u) : u \in {"u2", "u3"}, t \in {1, 3}}
  \cup {Story(u, Absent, 1, o, {"g"}, a, d, "u1") :
     u \in {"u1", "u4"}, o \in {{}, {"y"}}, a \in {Absent, "fund"}, d \in {NoTime, 2}}
  \cup {Story("u5", Absent, t, {"x"}, {"g"}, "launch", 3, "u1") : t \in {2, 5}}

MCRoles == {"official", "media", "research", "community"}
MCWitnesses ==
  [url : {"u1", "u2", "u3"}, root : {Absent, "u1"}, evidence : {TRUE}, role : MCRoles]
  \cup [url : {"u1", "u2", "u3"}, root : {Absent}, evidence : {FALSE}, role : MCRoles]

MCFacts ==
  [members : {{}, {1}, {1, 2}}, versions : {{}, {"v1"}, {"v1", Algorithm}}, captured : BOOLEAN,
   objects : {{}, {"x"}, {"y"}}, acts : {{}, {"launch"}, {"launch", "fund"}},
   numbers : {{}, {7}}, strong : {{}, {"u"}}, times : {{}, {1}, {4}}]
MCFacts1 == {f \in MCFacts : f.times = {1} /\ f.numbers = {7} /\ f.captured /\ f.objects # {"y"} /\ f.strong # {}}
=============================================================================
