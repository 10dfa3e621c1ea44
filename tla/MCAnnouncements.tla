-------------------------- MODULE MCAnnouncements --------------------------
EXTENDS Announcements
CONSTANTS ann, eve, n1, t1, t2
=============================================================================
