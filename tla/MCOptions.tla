----------------------------- MODULE MCOptions -----------------------------
EXTENDS Options

OptionWords ==
  {<<"-", "a">>, <<"-", "a", "o">>, <<"-", "o", "x">>, <<"-", "p">>, <<"-", "p", "x">>, <<"x">>,
   <<"-">>, <<"-", "-">>, <<"-", "-", "f">>, <<"-", "-", "b", "a">>,
   <<"-", "-", "b", "a", "z", "=", "x">>, <<"-", "b", "a", "r">>}
Vectors ==
  BoundedSeq(OptionWords, 2)
  \cup BoundedSeq({<<"-", "o">>, <<"x">>, <<"-", "-", "f", "o">>, <<"-", "-">>, <<"-", "a", "p">>}, 3)
  \cup BoundedSeq({<<"-", "a">>, <<"x">>, <<"y">>}, 4)
  \cup {<<<<"-", "-", "b", "a", "r", "=", "x">>, <<"-", "u">>>>,
        <<<<"-", "u", "a">>, <<"x">>>>, <<<<"-", "-", "f", "=", "x">>, <<"y">>>>}
Settings ==
  {<<"permute", FALSE, FALSE>>, <<"permute", TRUE, TRUE>>,
   <<"require", FALSE, TRUE>>, <<"return", TRUE, FALSE>>}

(* "ao:p::", and a table of three long options.                            *)
Letters == [a |-> 0, o |-> 1, p |-> 2]
LongOptions ==
  <<[name |-> <<"f", "o">>, has_arg |-> 1, val |-> "foo"],
    [name |-> <<"b", "a", "r">>, has_arg |-> 0, val |-> "bar"],
    [name |-> <<"b", "a", "z">>, has_arg |-> 2, val |-> "baz"]>>
=============================================================================
