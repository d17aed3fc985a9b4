---------------------------- MODULE MCTreeReading -----------------------------
(* A small instance of TreeReading for TLC: types of every handler, most of  *)
(* them inside one another.                                                  *)
EXTENDS TreeReading

AnInt == Type("int", <<>>, <<>>, <<>>, {}, 0)
AString == Type("string", <<>>, <<>>, <<>>, {}, 0)
AnEnum == Type("enum", <<>>, <<>>, <<>>, {}, 0)
Document == Type("document", <<>>, <<>>, <<>>, {}, 0)
Vector(t) == Type("seq", <<t>>, <<>>, <<>>, {}, 0)
Array(t, n) == Type("fixed", <<t>>, <<>>, <<>>, {}, n)
Tuple(ts) == Type("tuple", ts, <<>>, <<>>, {}, 0)
Map(t) == Type("map", <<t>>, <<>>, <<>>, {"unique"}, 0)
Multimap(t) == Type("map", <<t>>, <<>>, <<>>, {}, 0)
Pointer(t) == Type("pointer", <<t>>, <<>>, <<>>, {}, 0)
Converted(t) == Type("conversion", <<t>>, <<>>, <<>>, {}, 0)
Object(own, ts, flags) == Type("object", ts, <<"a", "b">>, flags, own, 0)

SomeTypes ==
    <<Vector(Array(AnInt, 2)),
      Array(Pointer(Converted(AnInt)), 2),
      Tuple(<<Vector(AnInt), AnEnum>>),
      Map(Vector(Pointer(AnInt))),
      Multimap(Document),
      Vector(Map(AString)),
      Vector(Tuple(<<AnEnum, AnInt>>)),
      Pointer(Object({}, <<AnInt, AnEnum>>, <<{}, {"Optional"}>>)),
      Object({"AllowDuplicateKey"}, <<Document, Map(AnInt)>>, <<{}, {"Optional"}>>),
      Object({"DisallowUnknownKey"}, <<AString, Tuple(<<AnInt, AnEnum>>)>>,
             <<{"Optional", "IgnoreWrite"}, {"Optional"}>>),
      Object({"DisallowUnknownKey"}, <<AnInt, Object({}, <<AnInt, AString>>, <<{}, {}>>)>>,
             <<{"Optional", "IgnoreRead"}, {}>>),
      Object({}, <<AnInt, AnInt>>, <<{"IgnoreRead"}, {"Optional"}>>)>>

SomeScalars == {Event("int", "1", 0), Event("int", "2", 0),
                Event("string", "red", 0), Event("null", "", 0)}
===============================================================================
