-------------------------- MODULE MCMessageIterator --------------------------
EXTENDS MessageIterator

CONSTANTS i1, i2, mA, mE, mX

Leaf(t) == [tag |-> t, kids |-> <<>>]
Box(t, ks) == [tag |-> t, kids |-> ks]

\* mA: (i, ay, (s, a{sv})) with one empty array; mE: an empty body;
\* mX: a non-empty message that is not valid.
MCBody == [m \in {mA, mE, mX} |->
            IF m = mA THEN << Leaf("INT32"),
                              Box("ARRAY", <<Leaf("BYTE"), Leaf("BYTE")>>),
                              Box("STRUCT", <<Leaf("STRING"), Box("ARRAY", <<>>)>>) >>
            ELSE IF m = mE THEN <<>>
            ELSE << Leaf("UINT32") >>]

MCMsgValid == [m \in {mA, mE, mX} |-> m # mX]
====
