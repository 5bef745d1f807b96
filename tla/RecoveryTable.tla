---------------------------- MODULE RecoveryTable ----------------------------
(***************************************************************************)
(* The tables of recovery-table.h, without the prefix lengths in their     *)
(* high bits, and what recovery.c needs of them.                           *)
(***************************************************************************)
EXTENDS Integers

word_table1 == <<
  0, 8, 16, 25, 33, 42, 51, 58, 67, 73, 79, 88, 93, 100, 105, 110,
  119, 126, 133, 141, 149, 155, 164, 173, 181, 190, 199, 208, 217, 220, 225, 234,
  240, 247, 255, 263, 271, 280, 288, 295, 303, 312, 320, 329, 338, 347, 356, 365,
  372, 381, 390, 397, 405, 409, 417, 426, 435, 442, 449, 453, 462, 471, 480, 489,
  498, 503, 511, 520, 529, 538, 546, 554, 559, 565, 574, 583, 590, 594, 603, 612,
  621, 630>>

word_table2 == <<
  0, 5, 9, 10, 14, 16, 18, 19, 24, 25, 28, 33, 34, 37, 41, 42,
  46, 49, 54, 57, 61, 66, 69, 73, 77, 82, 88, 90, 92, 93, 97, 98,
  102, 106, 108, 112, 113, 119, 122, 126, 129, 135, 136, 140, 145, 151, 155, 160,
  163, 168, 171, 175, 177, 180, 183, 188, 191, 194, 197, 201, 206, 210, 214, 219,
  221, 227, 233, 234, 239, 242, 244, 247, 250, 253, 256, 257, 258, 259, 261, 263,
  267, 271, 274, 278, 281, 286, 291, 294, 295, 296, 297, 298, 300, 302, 305, 311,
  317, 321, 323, 324, 327, 328, 329, 330, 332, 333, 338, 341, 347, 353, 357, 362,
  367, 373, 377, 381, 385, 391, 396, 398, 402, 407, 411, 415, 419, 425, 427, 428,
  429, 431, 435, 437, 438, 439, 440, 442, 444, 445, 446, 447, 448, 449, 450, 452,
  458, 459, 462, 463, 465, 467, 470, 475, 476, 482, 484, 487, 491, 494, 498, 500,
  502, 507, 510, 513, 514, 516, 517, 519, 520, 523, 524, 525, 526, 527, 532, 534,
  539, 542, 544, 549, 550, 551, 553, 559, 565, 569, 571, 576, 578, 582, 586, 588,
  591, 596, 599, 603, 607, 610, 616, 620, 622, 626, 628, 633, 637, 641, 647, 649,
  651, 654, 655, 657, 659, 662, 665, 667, 671, 673, 676, 679, 685, 689, 692, 697,
  700, 705, 710, 713, 717, 720, 724, 728, 732, 735, 739, 741, 743, 745, 750, 751,
  757, 759, 761, 763, 768, 770, 772, 774, 780, 781, 782, 783, 784, 785, 787, 788,
  792, 794, 799, 800, 802, 805, 808, 810, 813, 817, 819, 822, 825, 826, 832, 833,
  835, 838, 840, 844, 848, 852, 854, 857, 859, 861, 863, 866, 868, 872, 876, 879,
  884, 885, 886, 889, 892, 895, 896, 897, 899, 902, 903, 906, 907, 908, 910, 914,
  918, 922, 925, 928, 931, 935, 940, 946, 952, 956, 960, 965, 966, 967, 968, 971,
  972, 973, 977, 978, 980, 982, 983, 987, 988, 992, 997, 1000, 1004, 1007, 1012, 1016,
  1021, 1026, 1030, 1034, 1038, 1042, 1047, 1052, 1056, 1061, 1067, 1068, 1072, 1075, 1078, 1084,
  1085, 1091, 1094, 1099, 1101, 1105, 1106, 1108, 1110, 1112, 1114, 1118, 1120, 1122, 1124, 1126,
  1127, 1131, 1133, 1136, 1139, 1144, 1148, 1152, 1156, 1160, 1164, 1169, 1170, 1173, 1175, 1177,
  1180, 1182, 1185, 1187, 1189, 1192, 1195, 1197, 1201, 1203, 1204, 1208, 1210, 1214, 1215, 1218,
  1222, 1225, 1226, 1230, 1231, 1232, 1235, 1236, 1241, 1246, 1252, 1255, 1256, 1257, 1261, 1264,
  1266, 1269, 1275, 1280, 1286, 1291, 1294, 1298, 1303, 1308, 1312, 1316, 1321, 1326, 1331, 1336,
  1339, 1344, 1350, 1355, 1357, 1363, 1366, 1371, 1375, 1380, 1384, 1386, 1389, 1391, 1393, 1397,
  1400, 1401, 1404, 1405, 1408, 1409, 1410, 1413, 1415, 1418, 1420, 1423, 1425, 1427, 1430, 1433,
  1435, 1440, 1441, 1444, 1447, 1448, 1452, 1456, 1459, 1460, 1464, 1465, 1471, 1474, 1475, 1477,
  1478, 1479, 1485, 1490, 1495, 1500, 1505, 1510, 1513, 1517, 1522, 1527, 1530, 1534, 1536, 1540,
  1543, 1547, 1551, 1555, 1559, 1565, 1568, 1574, 1578, 1581, 1586, 1588, 1593, 1595, 1596, 1597,
  1601, 1607, 1611, 1616, 1618, 1623, 1627, 1631, 1635, 1640, 1645, 1646, 1649, 1651, 1656, 1659,
  1661, 1666, 1670, 1675, 1676, 1681, 1682, 1687, 1690, 1691, 1694, 1700, 1704, 1709, 1712, 1718,
  1723, 1726, 1727, 1730, 1732, 1736, 1738, 1741, 1744, 1750, 1752, 1756, 1758, 1762, 1763, 1767,
  1771, 1776, 1780, 1783, 1787, 1790, 1792, 1797, 1800, 1803, 1805, 1807, 1811, 1813, 1816, 1820,
  1823, 1826, 1829, 1831, 1834, 1837, 1840, 1844, 1849, 1854, 1857, 1863, 1865, 1871, 1872, 1877,
  1880, 1886, 1888, 1890, 1894, 1899, 1903, 1908, 1914, 1916, 1922, 1923, 1929, 1935, 1940, 1946,
  1951, 1957, 1962, 1965, 1969, 1972, 1976, 1979, 1985, 1990, 1993, 1997, 2003, 2005, 2010, 2015,
  2017, 2022, 2027, 2032, 2038, 2044, 2048>>

\* The comment at recovery.c:102 for matrices of base choices, and of narrow words
\* at the last level.  The last group is full: the choice after it would be outside.
Grows(t, n) == \A j \in 0 .. n : \A i \in 0 .. j - 1 : t[i] < t[j]
Tables(t1, t2, base, narrow) ==
  LET groups == base * base
      ranges == t1[groups]
  IN /\ t1 \in [0 .. groups -> Nat] /\ t1[0] = 0 /\ Grows(t1, groups)
     /\ \A g \in 0 .. groups - 1 : t1[g + 1] - t1[g] <= base
     /\ t1[groups] - t1[groups - 1] = base
     /\ t2 \in [0 .. ranges -> Nat] /\ t2[0] = 0 /\ Grows(t2, ranges)
     /\ \A r \in 0 .. ranges - 1 : t2[r + 1] - t2[r] <= narrow

\* The tables count from 0.
Table1 == [i \in 0 .. 81 |-> word_table1[i + 1]]
Table2 == [i \in 0 .. 630 |-> word_table2[i + 1]]
\* The real tables split the 2048 words of the list as the code assumes.
ASSUME RealTables == Tables(Table1, Table2, 9, 6) /\ Table2[630] = 2048
=============================================================================
