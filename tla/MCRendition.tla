---------------------------- MODULE MCRendition -----------------------------
\* Constants for checking Rendition, Sgr and Cwd with TLC.
EXTENDS Rendition

DefPrivateModes == {DECCOLM, DECSCNM, DECTCEM, 47, 1003, Alt1049}
DefSgrLists == {<<0>>, <<1, 31>>, <<38, 5, 1, 4>>}
DefKeyboardModes == {{1}, {1, 2}}

\* OSC 0 with a title that holds ';', OSC l, OSC 7 with and without a path,
\* OSC 9;9 and a notification.
DefOscReports ==
    { << <<48>>, <<97>>, <<98>> >>,
      << <<108>>, <<97>>, <<98>> >>,
      << <<55>>, Scheme \o <<104, Slash, 97>> >>,
      << <<55>>, <<104>> >>,
      << <<57>>, <<57>>, <<67, Colon>>, <<97>> >>,
      << <<57>>, <<52>> >> }

\* SGR groups: reset, attributes, named, bright, indexed and RGB colours, with
\* components that would be attributes on their own.
Groups ==
    { <<0>>, <<1>>, <<6>>, <<22>>, <<7>>, <<27>>, <<31>>, <<39>>, <<44>>, <<97>>,
      <<38, 5, 1>>, <<48, 5, 200>>, <<38, 2, 1, 4, 300>>, <<48, 2, 0, 38, 5>> }

\* NUL, '%', '/', ';', ':', a letter that is a hex digit, the bytes of a letter of
\* two and of a sign of three.
PathBytes == {Nul, Percent, Slash, Semicolon, Colon, 67, 195, 169, 226, 130}

DefPens == {Pen({"dim"}, Ansi(1), Default), Pen({"reverse"}, Default, Default)}

\* Bound: groups in one sequence, bytes in one path.
GroupCount == 3
DefSgrGroups == BoundedSeq(Groups, GroupCount)

PathLength == 3
DefPaths == {<<Slash>> \o s : s \in BoundedSeq(PathBytes, PathLength)}
DefHosts == {<<>>, <<104, 46>>}
=============================================================================
