----------------------------- MODULE MCServing -----------------------------
EXTENDS Serving
Origin(scheme, host, loopback) == [scheme |-> scheme, host |-> host, loopback |-> loopback]
MCHandshakes ==
    {[origins |-> <<>>, host |-> "local"],
     [origins |-> <<Origin("http", "other", FALSE)>>, host |-> "local"]}
MCLaunches == {[override |-> "blank", sibling |-> TRUE],
               [override |-> "unset", sibling |-> FALSE]}
Call(method, t, title) == [method |-> method, thread |-> t, title |-> title,
                           decodes |-> TRUE, write |-> FALSE]
List(method) == Call(method, "none", <<>>)
MCScripts ==
    "c1" :> <<{Call("thread/archive", "t1", <<"a">>),
               [List("proposal/decide") EXCEPT !.write = TRUE]},
              {List("thread/list"), List("thread/list_archived"),
               Call("thread/rename", "t1", <<Blank, "u">>)}>> @@
    "c2" :> <<{Call("thread/create", "none", <<"a", Blank, "b">>),
               Call("thread/create", "none", <<Blank>>),
               List("malformed"), List("unknown"), List("model/catalog"),
               List("proposal/decide"),
               [List("thread/list") EXCEPT !.decodes = FALSE]}>>
MCDeltas == {<<Open, Open, Close, "x", Close, Quote, "y", Quote>>,
             <<Break, Close, "a", Blank, Blank, "b", Break, "c", Open>>}
=============================================================================
