---- MODULE MCTracker ----
\* Two clusters per frame and four ids: lost obstacles, ambiguous matches, the
\* out-of-bounds read and a wrap of the id counter all fit. Height 0 is below the
\* floor.
EXTENDS Tracker
MCMaxClusters == 2
MCIdLimit == 3
MCJunkIds == {0}
MCHeights == {0, 1, 2}
MCFloor == 1
MCMaxCount == 2
====
